---- MODULE Spec2Model ----
(***************************************************************************)
(* A model of the Drip C++ SDK client (nmalilay/drip-cpp-sdk): the request *)
(* pipeline Client::Impl::request, ping() with its base-URL swap, and the  *)
(* recordRun orchestrator.  Two builds exist, the nlohmann-based one       *)
(* (src/unnamed/part_003) and the picojson-based one                       *)
(* (src/include/drip/client.hpp); `variant` says which one is running.     *)
(* Strings are TLA+ strings, read character by character with SubSeq.      *)
(***************************************************************************)
EXTENDS Integers, Sequences, FiniteSets, TLC

VARIABLES variant, config, env, impl, pc, params, local, calls, inflight, resp, ret, outcome

vars == <<variant, config, env, impl, pc, params, local, calls, inflight, resp, ret, outcome>>

\* ------------------------------------------------------------------ bounds

\* The longest event list handed to recordRun.
MaxEvents == 2

Threads == {1, 2}

\* ----------------------------------------------------------------- strings

CharAt(s, i) == SubSeq(s, i, i)

Min(a, b) == IF a < b THEN a ELSE b

\* std::string::substr(pos, n): at most n characters from pos (0-based).
Substr(s, pos, n) == SubSeq(s, pos + 1, Min(Len(s), pos + n))

Lower == "abcdefghijklmnopqrstuvwxyz"
Upper == "ABCDEFGHIJKLMNOPQRSTUVWXYZ"
Digits == "0123456789"

IndexIn(table, c) == CHOOSE i \in 1..Len(table) : CharAt(table, i) = c

IsIn(table, c) == \E i \in 1..Len(table) : CharAt(table, i) = c

\* static_cast<unsigned char>(c): the ASCII code of the characters the model uses.
Ord(c) ==
    CASE IsIn(Lower, c) -> 96 + IndexIn(Lower, c)
      [] IsIn(Upper, c) -> 64 + IndexIn(Upper, c)
      [] IsIn(Digits, c) -> 47 + IndexIn(Digits, c)
      [] c = " " -> 32
      [] c = "-" -> 45
      [] c = "." -> 46
      [] c = "/" -> 47
      [] c = ":" -> 58
      [] c = "_" -> 95

\* The characters the model's strings are made of, and their codes in a table.
Chars ==
    {CharAt(Lower, i) : i \in 1..26} \cup {CharAt(Upper, i) : i \in 1..26}
        \cup {CharAt(Digits, i) : i \in 1..10} \cup {" ", "-", ".", "/", ":", "_"}

OrdTable == [c \in Chars |-> Ord(c)]

\* The character of a code in 'A' .. 'Z'.
Chr(n) == CharAt(Upper, n - 64)

\* operator<< of a non-negative int or size_t: its decimal digits.
RECURSIVE DecStr(_)
DecStr(n) == IF n < 10 THEN CharAt("0123456789", n + 1)
             ELSE DecStr(n \div 10) \o CharAt("0123456789", (n % 10) + 1)

\* ------------------------------------------------------------------- JSON

JStr(s) == [kind |-> "str", val |-> s]
JNum(n) == [kind |-> "num", val |-> n]
JBool(b) == [kind |-> "bool", val |-> b]
JArr(a) == [kind |-> "arr", val |-> a]
JObj(o) == [kind |-> "obj", val |-> o]
JNull == [kind |-> "null", val |-> 0]
\* A response text that is not a JSON document.
JInvalid == [kind |-> "invalid", val |-> "<html>"]

NoFields == [k \in {} |-> JNull]

\* body[key] = value on a json object.
Put(o, key, value) == [k \in DOMAIN o \cup {key} |-> IF k = key THEN value ELSE o[k]]

Contains(j, key) == j.kind = "obj" /\ key \in DOMAIN j.val

json_string(j, key) ==
    IF Contains(j, key) /\ j.val[key].kind = "str" THEN j.val[key].val ELSE ""

json_int(j, key, def) ==
    IF Contains(j, key) /\ j.val[key].kind = "num" THEN j.val[key].val ELSE def

json_bool(j, key, def) ==
    IF Contains(j, key) /\ j.val[key].kind = "bool" THEN j.val[key].val ELSE def

\* json_arr of the picojson build; in the nlohmann build the guard
\* contains("data") && is_array() around the loop.
json_arr(j, key) ==
    IF Contains(j, key) /\ j.val[key].kind = "arr" THEN j.val[key].val ELSE <<>>

\* Metadata (a map of strings) as a json object.
metadata_to_json(m) == JObj([k \in DOMAIN m |-> JStr(m[k])])

\* The member names of the model's JSON values in the order of std::map, which
\* both JSON libraries keep objects in.
KeyOrder == <<"a", "k", "n">>

\* json::dump() / picojson::value::serialize() for the values of the model:
\* compact text, whole numbers in decimal, strings without characters that
\* need escaping.
RECURSIVE Serialize(_)
RECURSIVE SerializeItems(_)
RECURSIVE SerializeMembers(_, _)

SerializeItems(a) ==
    IF Len(a) = 0 THEN ""
    ELSE IF Len(a) = 1 THEN Serialize(a[1])
    ELSE Serialize(a[1]) \o "," \o SerializeItems(Tail(a))

SerializeMembers(o, keys) ==
    IF Len(keys) = 0 THEN ""
    ELSE LET m == "\"" \o Head(keys) \o "\":" \o Serialize(o[Head(keys)])
         IN  IF Len(keys) = 1 THEN m ELSE m \o "," \o SerializeMembers(o, Tail(keys))

Serialize(j) ==
    CASE j.kind = "str" -> "\"" \o j.val \o "\""
      [] j.kind = "num" -> DecStr(j.val)
      [] j.kind = "bool" -> IF j.val THEN "true" ELSE "false"
      [] j.kind = "null" -> "null"
      [] j.kind = "arr" -> "[" \o SerializeItems(j.val) \o "]"
      [] j.kind = "obj" ->
            "{" \o SerializeMembers(j.val, SelectSeq(KeyOrder, LAMBDA k : k \in DOMAIN j.val)) \o "}"

metadata_from_json_StringsOnly(j) ==
    IF j.kind = "obj"
    THEN [k \in {x \in DOMAIN j.val : j.val[x].kind = "str"} |-> j.val[k].val]
    ELSE [k \in {} |-> ""]

metadata_from_json(j) ==
    IF j.kind = "obj"
    THEN [k \in DOMAIN j.val |->
            IF j.val[k].kind = "str" THEN j.val[k].val ELSE Serialize(j.val[k])]
    ELSE [k \in {} |-> ""]

\* if (cond) body[key] = value;
PutIf(cond, o, key, value) == IF cond THEN Put(o, key, value) ELSE o

\* ----------------------------------------------------------------- errors

NoError == [type |-> "none", status |-> 0, code |-> "", message |-> ""]

DripError(message, status_code, code) ==
    [type |-> "DripError", status |-> status_code, code |-> code, message |-> message]

AuthenticationError(message) ==
    [type |-> "AuthenticationError", status |-> 401, code |-> "UNAUTHORIZED", message |-> message]

NotFoundError(message) ==
    [type |-> "NotFoundError", status |-> 404, code |-> "NOT_FOUND", message |-> message]

RateLimitError(message) ==
    [type |-> "RateLimitError", status |-> 429, code |-> "RATE_LIMITED", message |-> message]

TimeoutError(message) ==
    [type |-> "TimeoutError", status |-> 408, code |-> "TIMEOUT", message |-> message]

\* NetworkError that carries the status of an unavailable service.
NetworkError_503(message) ==
    [type |-> "NetworkError", status |-> 503, code |-> "NETWORK_ERROR", message |-> message]

NetworkError(message) ==
    [type |-> "NetworkError", status |-> 0, code |-> "NETWORK_ERROR", message |-> message]

\* What a call of request() ends in: a returned document or a thrown error.
Returned(data) == [state |-> "returned", error |-> NoError, data |-> data]
Thrown(e) == [state |-> "thrown", error |-> e, data |-> JNull]

\* ------------------------------------------------------- idempotency keys

\* An unsigned long of 64 bits as four 16-bit limbs, lowest first.
Limb == 65536

HashInit == <<5381, 0, 0, 0>>

\* hash = ((hash << 5) + hash) + c, modulo 2^64.
HashStep(h, c) ==
    LET v0 == h[1] * 33 + c
        v1 == h[2] * 33 + (v0 \div Limb)
        v2 == h[3] * 33 + (v1 \div Limb)
        v3 == h[4] * 33 + (v2 \div Limb)
    IN  <<v0 % Limb, v1 % Limb, v2 % Limb, v3 % Limb>>

RECURSIVE Djb2(_, _)
Djb2(h, input) ==
    IF input = "" THEN h
    ELSE Djb2(HashStep(h, OrdTable[Head(input)]), Tail(input))

HexDigit(d) == CharAt("0123456789abcdef", d + 1)

LimbHex(l) ==
    HexDigit(l \div 4096) \o HexDigit((l \div 256) % 16)
        \o HexDigit((l \div 16) % 16) \o HexDigit(l % 16)

RECURSIVE StripZeros(_)
StripZeros(s) ==
    IF Len(s) > 1 /\ Head(s) = "0" THEN StripZeros(Tail(s)) ELSE s

\* std::hex << hash: lower-case digits, no leading zeros.
HexStr(h) == StripZeros(LimbHex(h[4]) \o LimbHex(h[3]) \o LimbHex(h[2]) \o LimbHex(h[1]))

\* operator<< of a double holding a whole number in 0 .. 999999.
DoubleStr(c) == DecStr(c)

make_idempotency_key(prefix, a, b, c) ==
    LET input == prefix \o ":" \o a \o ":" \o b \o ":" \o DoubleStr(c)
    IN  prefix \o "_" \o HexStr(Djb2(HashInit, input))

make_idempotency_key_int(prefix, a, b, c) == make_idempotency_key(prefix, a, b, c)

\* ------------------------------------------------------- the constructor

DEFAULT_BASE_URL == "https://drip-app-hlunj.ondigitalocean.app/v1"

env_or(val, fallback) == IF val # "" THEN val ELSE fallback

RECURSIVE StripTrailingSlashes(_)
StripTrailingSlashes(u) ==
    IF u # "" /\ CharAt(u, Len(u)) = "/"
    THEN StripTrailingSlashes(SubSeq(u, 1, Len(u) - 1))
    ELSE u

\* Impl that tells the key type by the first two characters only.
Impl_TwoCharPrefix(cfg, e) ==
    LET key == IF cfg.api_key = "" THEN env_or(e.DRIP_API_KEY, "") ELSE cfg.api_key
        url == IF cfg.base_url = "" THEN env_or(e.DRIP_BASE_URL, DEFAULT_BASE_URL)
               ELSE cfg.base_url
    IN  [api_key |-> key,
         base_url |-> StripTrailingSlashes(url),
         timeout_ms |-> IF cfg.timeout_ms > 0 THEN cfg.timeout_ms ELSE 30000,
         key_type |-> IF Substr(key, 0, 2) = "sk" THEN "KEY_SECRET"
                      ELSE IF Substr(key, 0, 2) = "pk" THEN "KEY_PUBLIC"
                      ELSE "KEY_UNKNOWN"]

\* Impl::Impl for a configuration whose API key resolves to a non-empty one.
\* e holds the values of DRIP_API_KEY and DRIP_BASE_URL.
Impl(cfg, e) ==
    LET key == IF cfg.api_key = "" THEN env_or(e.DRIP_API_KEY, "") ELSE cfg.api_key
        url == IF cfg.base_url = "" THEN env_or(e.DRIP_BASE_URL, DEFAULT_BASE_URL)
               ELSE cfg.base_url
    IN  [api_key |-> key,
         base_url |-> StripTrailingSlashes(url),
         timeout_ms |-> IF cfg.timeout_ms > 0 THEN cfg.timeout_ms ELSE 30000,
         key_type |-> IF Substr(key, 0, 3) = "sk_" THEN "KEY_SECRET"
                      ELSE IF Substr(key, 0, 3) = "pk_" THEN "KEY_PUBLIC"
                      ELSE "KEY_UNKNOWN"]

\* ---------------------------------------------------- the request pipeline

\* std::string url = base_url + path;
RequestUrl(base_url, path) == base_url \o path

\* ErrorFor without the branch for 429.
ErrorFor_No429(http_code, data) ==
    LET m1 == json_string(data, "message")
        m2 == IF m1 = "" THEN json_string(data, "error") ELSE m1
        msg == IF m2 = "" THEN "Request failed with status " \o DecStr(http_code) ELSE m2
        code == json_string(data, "code")
    IN  IF http_code = 401 THEN AuthenticationError(msg)
        ELSE IF http_code = 404 THEN NotFoundError(msg)
        ELSE DripError(msg, http_code, code)

\* ErrorFor that looks at the error field before the message field.
ErrorFor_ErrorFirst(http_code, data) ==
    LET m1 == json_string(data, "error")
        m2 == IF m1 = "" THEN json_string(data, "message") ELSE m1
        msg == IF m2 = "" THEN "Request failed with status " \o DecStr(http_code) ELSE m2
        code == json_string(data, "code")
    IN  IF http_code = 401 THEN AuthenticationError(msg)
        ELSE IF http_code = 404 THEN NotFoundError(msg)
        ELSE IF http_code = 429 THEN RateLimitError(msg)
        ELSE DripError(msg, http_code, code)

\* The error of a response outside [200,300) whose body was parsed.
ErrorFor(http_code, data) ==
    LET m1 == json_string(data, "message")
        m2 == IF m1 = "" THEN json_string(data, "error") ELSE m1
        msg == IF m2 = "" THEN "Request failed with status " \o DecStr(http_code) ELSE m2
        code == json_string(data, "code")
    IN  IF http_code = 401 THEN AuthenticationError(msg)
        ELSE IF http_code = 404 THEN NotFoundError(msg)
        ELSE IF http_code = 429 THEN RateLimitError(msg)
        ELSE DripError(msg, http_code, code)

\* Whether the build's parse step accepts the body: json::parse succeeds; the
\* picojson build also demands an object.
ParseOk(v, body) ==
    /\ body.kind # "invalid"
    /\ (v = "picojson" => body.kind = "obj")

\* RequestOutcome with the status looked at before the body is parsed: a
\* failure status with an unreadable body maps by status, with no fields.
RequestOutcome_StatusFirst(v, r) ==
    IF r.res = "CURLE_OPERATION_TIMEDOUT" THEN Thrown(TimeoutError("Request timed out"))
    ELSE IF r.res # "CURLE_OK" THEN Thrown(NetworkError("CURL error"))
    ELSE IF r.http_code = 204 THEN Returned(JObj(Put(NoFields, "success", JBool(TRUE))))
    ELSE IF r.http_code < 200 \/ r.http_code >= 300
         THEN Thrown(ErrorFor(r.http_code, IF ParseOk(v, r.body) THEN r.body ELSE JObj(NoFields)))
    ELSE IF r.body.kind = "invalid"
         THEN Thrown(DripError("Failed to parse API response", r.http_code, "PARSE_ERROR"))
    ELSE IF ~ParseOk(v, r.body)
         THEN Thrown(DripError("API response is not a JSON object", r.http_code, "PARSE_ERROR"))
    ELSE Returned(r.body)

\* RequestOutcome that lets an unreadable body of a 2xx response pass as an
\* empty result.
RequestOutcome_ParseLenient(v, r) ==
    IF r.res = "CURLE_OPERATION_TIMEDOUT" THEN Thrown(TimeoutError("Request timed out"))
    ELSE IF r.res # "CURLE_OK" THEN Thrown(NetworkError("CURL error"))
    ELSE IF r.http_code = 204 THEN Returned(JObj(Put(NoFields, "success", JBool(TRUE))))
    ELSE IF r.body.kind = "invalid"
         THEN IF r.http_code >= 200 /\ r.http_code < 300
              THEN Returned(JObj(NoFields))
              ELSE Thrown(DripError("Failed to parse API response", r.http_code, "PARSE_ERROR"))
    ELSE IF ~ParseOk(v, r.body)
         THEN Thrown(DripError("API response is not a JSON object", r.http_code, "PARSE_ERROR"))
    ELSE IF r.http_code < 200 \/ r.http_code >= 300 THEN Thrown(ErrorFor(r.http_code, r.body))
    ELSE Returned(r.body)

\* RequestOutcome that parses the body before it tests for 204.
RequestOutcome_ParseBefore204(v, r) ==
    IF r.res = "CURLE_OPERATION_TIMEDOUT" THEN Thrown(TimeoutError("Request timed out"))
    ELSE IF r.res # "CURLE_OK" THEN Thrown(NetworkError("CURL error"))
    ELSE IF r.body.kind = "invalid"
         THEN Thrown(DripError("Failed to parse API response", r.http_code, "PARSE_ERROR"))
    ELSE IF r.http_code = 204 THEN Returned(JObj(Put(NoFields, "success", JBool(TRUE))))
    ELSE IF ~ParseOk(v, r.body)
         THEN Thrown(DripError("API response is not a JSON object", r.http_code, "PARSE_ERROR"))
    ELSE IF r.http_code < 200 \/ r.http_code >= 300 THEN Thrown(ErrorFor(r.http_code, r.body))
    ELSE Returned(r.body)

\* RequestOutcome without the branch for CURLE_OPERATION_TIMEDOUT.
RequestOutcome_TimeoutAsNetwork(v, r) ==
    IF r.res # "CURLE_OK" THEN Thrown(NetworkError("CURL error"))
    ELSE IF r.http_code = 204 THEN Returned(JObj(Put(NoFields, "success", JBool(TRUE))))
    ELSE IF r.body.kind = "invalid"
         THEN Thrown(DripError("Failed to parse API response", r.http_code, "PARSE_ERROR"))
    ELSE IF ~ParseOk(v, r.body)
         THEN Thrown(DripError("API response is not a JSON object", r.http_code, "PARSE_ERROR"))
    ELSE IF r.http_code < 200 \/ r.http_code >= 300 THEN Thrown(ErrorFor(r.http_code, r.body))
    ELSE Returned(r.body)

\* request() from the return of curl_easy_perform on: r is the transfer's
\* result code, status and body.
RequestOutcome(v, r) ==
    IF r.res = "CURLE_OPERATION_TIMEDOUT" THEN Thrown(TimeoutError("Request timed out"))
    ELSE IF r.res # "CURLE_OK" THEN Thrown(NetworkError("CURL error"))
    ELSE IF r.http_code = 204 THEN Returned(JObj(Put(NoFields, "success", JBool(TRUE))))
    ELSE IF r.body.kind = "invalid"
         THEN Thrown(DripError("Failed to parse API response", r.http_code, "PARSE_ERROR"))
    ELSE IF ~ParseOk(v, r.body)
         THEN Thrown(DripError("API response is not a JSON object", r.http_code, "PARSE_ERROR"))
    ELSE IF r.http_code < 200 \/ r.http_code >= 300 THEN Thrown(ErrorFor(r.http_code, r.body))
    ELSE Returned(r.body)

\* request() when curl_easy_init returns NULL.
InitFailure == Thrown(NetworkError("Failed to initialize CURL"))

\* -------------------------------------------------------------- the inputs

Variants == {"nlohmann", "picojson"}

\* The configurations a client is built from: the default base URL, and one
\* given with trailing slashes and no version segment.
Configs ==
    {[api_key |-> "sk_test", base_url |-> u, timeout_ms |-> 0] : u \in {"", "http://h//"}}

Env == [DRIP_API_KEY |-> "", DRIP_BASE_URL |-> ""]

\* The API keys a client is constructed with: none, shorter than a prefix,
\* the two prefixes alone and with a tail, and keys that only look alike.
CtorKeys == {"", "s", "sk", "sk_", "sk_live", "pk_", "pk_test", "xk_", "SK_x", "skx", "ask_"}

CtorConfigs ==
    {[api_key |-> k, base_url |-> u, timeout_ms |-> 0] : k \in CtorKeys, u \in {"", "http://h//"}}

\* The environments of the process: with and without each variable.
CtorEnvs ==
    {[DRIP_API_KEY |-> k, DRIP_BASE_URL |-> u] : k \in {"", "pk_env"}, u \in {"", "http://e/v1/"}}

NoMetadata == [k \in {} |-> ""]

\* RecordRunEvent values: one with every optional field at its default, one
\* with every optional field set.
EventBare ==
    [event_type |-> "a", quantity |-> 0, units |-> "", description |-> "",
     cost_units |-> 0, metadata |-> NoMetadata]

EventFull ==
    [event_type |-> "b", quantity |-> 50, units |-> "epochs", description |-> "d",
     cost_units |-> 2, metadata |-> [k \in {"k"} |-> "v"]]

\* The event lists handed to recordRun: the first n events of a list that
\* starts with the full event and goes on with bare ones of one type.
EventLists ==
    {[i \in 1..n |-> IF i = 1 THEN EventFull ELSE EventBare] : n \in 0..MaxEvents}

RecordRunParams(w, ev, st, msg, x) ==
    [customer_id |-> "c1", workflow |-> w, events |-> ev, status |-> st,
     error_message |-> msg, error_code |-> "", external_run_id |-> x,
     correlation_id |-> "", metadata |-> NoMetadata]

\* Completed runs with every event list, and failed runs without events.
RecordRunInputs ==
    {RecordRunParams(w, ev, "RUN_COMPLETED", "", x) :
        w \in {"wf_abc", "my-run"}, ev \in EventLists, x \in {"", "ext1"}}
    \cup {RecordRunParams(w, <<>>, "RUN_FAILED", "boom", "ext1") : w \in {"wf_abc", "my-run"}}

CustomerIds == {"c1", "nonexistent"}

\* TrackUsageParams: with and without an explicit key, with and without units.
TrackUsageInputs ==
    {[customer_id |-> "c1", meter |-> "tokens", quantity |-> 42, idempotency_key |-> k,
      units |-> u, description |-> "", metadata |-> NoMetadata] :
        k \in {"", "key1"}, u \in {"", "tokens"}}

\* Events with exactly one optional field set.
EventOneField ==
    {[EventBare EXCEPT !.quantity = 50], [EventBare EXCEPT !.units = "epochs"],
     [EventBare EXCEPT !.description = "d"], [EventBare EXCEPT !.cost_units = 2],
     [EventBare EXCEPT !.metadata = [k \in {"k"} |-> "v"]]}

\* EmitEventParams: no optional field, one, or all of them with an explicit
\* key; none or all of them without.
EmitEventInputs ==
    {[run_id |-> "run_1", idempotency_key |-> "key1"] @@ e :
        e \in {EventBare, EventFull} \cup EventOneField}
    \cup {[run_id |-> "run_1", idempotency_key |-> ""] @@ e : e \in {EventBare, EventFull}}

\* -------------------------------------------------------------- the server

Statuses == {200, 204, 401, 404, 429, 500}

Obj1(k1, v1) == JObj(Put(NoFields, k1, v1))
Obj2(k1, v1, k2, v2) == JObj(Put(Put(NoFields, k1, v1), k2, v2))
Obj3(k1, v1, k2, v2, k3, v3) == JObj(Put(Put(Put(NoFields, k1, v1), k2, v2), k3, v3))

Workflow(id, slug, name) == Obj3("id", JStr(id), "slug", JStr(slug), "name", JStr(name))

\* Bodies any route may answer with: not JSON, JSON but no object, an error
\* object, an empty object.
CommonBodies ==
    <<JInvalid, JArr(<<>>), Obj2("message", JStr("denied"), "code", JStr("E_CODE")),
      JObj(NoFields)>>

RouteBodies(req) ==
    IF req.path = "/workflows" /\ req.method = "GET" THEN
        <<Obj1("data", JArr(<<Workflow("wf_1", "other", "Other"),
                              Workflow("wf_2", "my-run", "Mine"),
                              Workflow("wf_3", "my-run", "Again")>>)),
          Obj1("data", JArr(<<Workflow("wf_1", "other", "Other")>>)),
          Obj1("data", JArr(<<Workflow("my-run", "slug9", "ById")>>)),
          Obj1("data", JArr(<<Obj1("slug", JStr("my-run"))>>))>>
    ELSE IF req.path = "/workflows" THEN
        <<Obj2("id", JStr("wf_new"), "name", JStr("My Run")),
          Obj1("name", JStr("My Run"))>>
    ELSE IF req.path = "/runs" THEN
        <<Obj1("id", JStr("run_1")), Obj1("id", JStr("run_2"))>>
    ELSE IF req.path = "/run-events/batch" THEN
        <<Obj2("created", JNum(1), "duplicates", JNum(1))>>
    ELSE IF req.method = "PATCH" THEN
        <<Obj2("status", JStr("COMPLETED"), "durationMs", JNum(7))>>
    ELSE IF req.path = "/health" THEN
        <<Obj1("status", JStr("healthy")), Obj1("status", JStr("degraded"))>>
    ELSE IF req.path = "/usage/internal" THEN
        <<Obj3("success", JBool(TRUE), "usageEventId", JStr("u1"), "isDuplicate", JBool(FALSE)),
          Obj3("success", JBool(TRUE), "usageEventId", JStr("u1"), "isDuplicate", JBool(TRUE))>>
    ELSE IF req.path = "/run-events" THEN
        <<Obj3("id", JStr("e1"), "runId", JStr("run_1"), "isDuplicate", JBool(TRUE))>>
    ELSE IF Len(req.path) > 8 /\ Substr(req.path, Len(req.path) - 8, 8) = "/balance" THEN
        <<Obj2("customerId", JStr("c1"), "balanceUsdc", JStr("12.5")),
          Obj2("message", JStr("low"), "error", JStr("bad")),
          Obj1("error", JStr("bad")),
          Obj2("message", JStr(""), "error", JStr("bad")),
          Obj2("message", JNum(5), "error", JStr("bad")),
          Obj2("message", JStr(""), "error", JStr("")),
          Obj1("error", JBool(TRUE)),
          JStr("denied")>>
    ELSE
        <<Obj2("id", JStr("c1"), "status", JStr("ACTIVE"))>>

ServerBodies(req) == CommonBodies \o RouteBodies(req)

\* ------------------------------------------------------------- the state

Idle == [site |-> "none", phase |-> "idle"]
At(site, phase) == [site |-> site, phase |-> phase]

NoRequest == [method |-> "", path |-> "", body |-> JNull]
Req(method, path, body) == [method |-> method, path |-> path, body |-> body]

NoLocal ==
    [health_url |-> "", saved_base |-> "", workflow_id |-> "", workflow_name |-> "",
     run_id |-> "", events_created |-> 0, events_duplicates |-> 0, req |-> NoRequest]

NoParams == [op |-> "none"]
NoResponse == [res |-> "none", http_code |-> 0, body |-> JNull]
NoReturn == [state |-> "none", error |-> NoError, data |-> JNull]
NoOutcome == [state |-> "none", error |-> NoError]

Init ==
    /\ variant \in Variants
    /\ config \in Configs
    /\ env = Env
    /\ impl = Impl(config, env)
    /\ pc = [t \in Threads |-> Idle]
    /\ params = [t \in Threads |-> NoParams]
    /\ local = [t \in Threads |-> NoLocal]
    /\ calls = [t \in Threads |-> <<>>]
    /\ inflight = [t \in Threads |-> {}]
    /\ resp = [t \in Threads |-> NoResponse]
    /\ ret = [t \in Threads |-> NoReturn]
    /\ outcome = [t \in Threads |-> NoOutcome]

\* ------------------------------------------------- calls and their frames

\* The caller's view when a call ends: what it returned or threw.  The frame
\* (the locals) is gone.
Return(t, result) ==
    /\ pc' = [pc EXCEPT ![t] = Idle]
    /\ local' = [local EXCEPT ![t] = NoLocal]
    /\ outcome' = [outcome EXCEPT ![t] = [state |-> "returned", error |-> NoError,
                                          result |-> result]]

Throw(t, e) ==
    /\ pc' = [pc EXCEPT ![t] = Idle]
    /\ local' = [local EXCEPT ![t] = NoLocal]
    /\ outcome' = [outcome EXCEPT ![t] = [state |-> "threw", error |-> e]]

\* The thread is about to enter request(method, path, body).
CallRequest(t, site, frame, req) ==
    /\ pc' = [pc EXCEPT ![t] = At(site, "call")]
    /\ local' = [local EXCEPT ![t] = [frame EXCEPT !.req = req]]

\* A new call starts: the logs of the previous one are dropped.
Enter(t, p) ==
    /\ pc[t] = Idle
    /\ params' = [params EXCEPT ![t] = p]
    /\ calls' = [calls EXCEPT ![t] = <<>>]
    /\ resp' = [resp EXCEPT ![t] = NoResponse]
    /\ ret' = [ret EXCEPT ![t] = NoReturn]
    /\ outcome' = [outcome EXCEPT ![t] = NoOutcome]
    /\ UNCHANGED <<variant, config, env, inflight>>

\* ----------------------------------------------------------- construction

\* No Client object exists.
NoClient == [api_key |-> "", base_url |-> "", timeout_ms |-> 0, key_type |-> "none"]

\* Before Client::Client(config) has run on the caller's Config.
InitCtor ==
    /\ variant \in Variants
    /\ config \in CtorConfigs
    /\ env \in CtorEnvs
    /\ impl = NoClient
    /\ pc = [t \in Threads |-> Idle]
    /\ params = [t \in Threads |-> NoParams]
    /\ local = [t \in Threads |-> NoLocal]
    /\ calls = [t \in Threads |-> <<>>]
    /\ inflight = [t \in Threads |-> {}]
    /\ resp = [t \in Threads |-> NoResponse]
    /\ ret = [t \in Threads |-> NoReturn]
    /\ outcome = [t \in Threads |-> NoOutcome]

\* Construct that makes the object whatever the key, leaving the failure to
\* the first call.
Construct_Deferred(t) ==
    /\ pc[t] = Idle
    /\ impl = NoClient
    /\ params' = [params EXCEPT ![t] = [op |-> "Client"]]
    /\ calls' = [calls EXCEPT ![t] = <<>>]
    /\ resp' = [resp EXCEPT ![t] = NoResponse]
    /\ ret' = [ret EXCEPT ![t] = NoReturn]
    /\ impl' = Impl(config, env)
    /\ Return(t, "client")
    /\ UNCHANGED <<variant, config, env, inflight>>

\* Client::Client(config): impl_(new Impl(config)).  Impl::Impl throws when
\* neither the Config nor DRIP_API_KEY gives a key, and then no object is made.
Construct(t) ==
    /\ pc[t] = Idle
    /\ impl = NoClient
    /\ params' = [params EXCEPT ![t] = [op |-> "Client"]]
    /\ calls' = [calls EXCEPT ![t] = <<>>]
    /\ resp' = [resp EXCEPT ![t] = NoResponse]
    /\ ret' = [ret EXCEPT ![t] = NoReturn]
    /\ LET key == IF config.api_key = "" THEN env_or(env.DRIP_API_KEY, "") ELSE config.api_key
       IN  IF key = ""
           THEN /\ impl' = NoClient
                /\ Throw(t, DripError("Drip API key is required", 0, "NO_API_KEY"))
           ELSE /\ impl' = Impl(config, env)
                /\ Return(t, "client")
    /\ UNCHANGED <<variant, config, env, inflight>>

\* --------------------------------------------------------------- ping()

StripV1(u) ==
    IF Len(u) >= 3 /\ SubSeq(u, Len(u) - 2, Len(u)) = "/v1"
    THEN SubSeq(u, 1, Len(u) - 3)
    ELSE u

\* ping() up to the computation of health_url.  The caller's record of the
\* call keeps the base URL the client had when the call began.
PingCall(t) ==
    /\ Enter(t, [op |-> "ping", base_url_before |-> impl.base_url])
    /\ pc' = [pc EXCEPT ![t] = At("ping", "swap")]
    /\ local' = [local EXCEPT ![t] = [NoLocal EXCEPT !.health_url = StripV1(impl.base_url)]]
    /\ UNCHANGED impl

\* saved_base = impl_->base_url; impl_->base_url = health_url;
PingSwap(t) ==
    /\ pc[t] = At("ping", "swap")
    /\ impl' = [impl EXCEPT !.base_url = local[t].health_url]
    /\ CallRequest(t, "ping", [local[t] EXCEPT !.saved_base = impl.base_url],
                   Req("GET", "/health", JNull))
    /\ UNCHANGED <<variant, config, env, params, calls, inflight, resp, ret, outcome>>

\* PingAfter with a catch block that rethrows without restoring.
PingAfter_NoRestoreOnThrow(t, r) ==
    IF r.state = "thrown"
    THEN Throw(t, r.error) /\ UNCHANGED impl
    ELSE /\ impl' = [impl EXCEPT !.base_url = local[t].saved_base]
         /\ LET st == json_string(r.data, "status")
                status == IF st = "" THEN "healthy" ELSE st
            IN  Return(t, [ok |-> (status = "healthy"), status |-> status])

\* The rest of ping(): the catch block or the normal path, both restoring.
PingAfter(t, r) ==
    /\ impl' = [impl EXCEPT !.base_url = local[t].saved_base]
    /\ IF r.state = "thrown" THEN Throw(t, r.error)
       ELSE LET st == json_string(r.data, "status")
                status == IF st = "" THEN "healthy" ELSE st
            IN  Return(t, [ok |-> (status = "healthy"), status |-> status])

\* ---------------------------------------------------------- getCustomer()

parse_customer(data) ==
    [id |-> json_string(data, "id"),
     external_customer_id |-> json_string(data, "externalCustomerId"),
     status |-> json_string(data, "status"),
     is_internal |-> json_bool(data, "isInternal", FALSE)]

GetCustomerCall(t, customer_id) ==
    /\ Enter(t, [op |-> "getCustomer", customer_id |-> customer_id])
    /\ CallRequest(t, "getCustomer", NoLocal, Req("GET", "/customers/" \o customer_id, JNull))
    /\ UNCHANGED impl

GetCustomerAfter(t, r) ==
    /\ IF r.state = "thrown" THEN Throw(t, r.error)
       ELSE Return(t, parse_customer(r.data))
    /\ UNCHANGED impl

\* ----------------------------------------------------------- getBalance()

GetBalanceCall(t, customer_id) ==
    /\ Enter(t, [op |-> "getBalance", customer_id |-> customer_id])
    /\ CallRequest(t, "getBalance", NoLocal,
                   Req("GET", "/customers/" \o customer_id \o "/balance", JNull))
    /\ UNCHANGED impl

GetBalanceAfter(t, r) ==
    /\ IF r.state = "thrown" THEN Throw(t, r.error)
       ELSE Return(t, [customer_id |-> json_string(r.data, "customerId"),
                       balance_usdc |-> json_string(r.data, "balanceUsdc")])
    /\ UNCHANGED impl

\* ------------------------------------------------ trackUsage(), emitEvent()

\* json_double for the whole numbers the model uses.
json_double(j, key, def) == json_int(j, key, def)

\* TrackUsageKey that derives the key from the parameters whatever the caller gave.
TrackUsageKey_AlwaysGenerated(p) ==
    make_idempotency_key("track", p.customer_id, p.meter, p.quantity)

\* TrackUsageKey whose generated key also covers the units.
TrackUsageKey_WithUnits(p) ==
    IF p.idempotency_key = ""
    THEN make_idempotency_key("track", p.customer_id, p.meter \o p.units, p.quantity)
    ELSE p.idempotency_key

\* The idempotency key trackUsage sends.
TrackUsageKey(p) ==
    IF p.idempotency_key = ""
    THEN make_idempotency_key("track", p.customer_id, p.meter, p.quantity)
    ELSE p.idempotency_key

TrackUsageBody(p) ==
    JObj(PutIf(p.metadata # NoMetadata,
           PutIf(p.description # "",
             PutIf(p.units # "",
               Put(Put(Put(Put(NoFields, "customerId", JStr(p.customer_id)),
                           "usageType", JStr(p.meter)),
                       "quantity", JNum(p.quantity)),
                   "idempotencyKey", JStr(TrackUsageKey(p))),
               "units", JStr(p.units)),
             "description", JStr(p.description)),
           "metadata", metadata_to_json(p.metadata)))

\* TrackUsageResult as trackUsage fills it from the response.
TrackUsageResult(data, p) ==
    [success |-> json_bool(data, "success", TRUE),
     usage_event_id |-> json_string(data, "usageEventId"),
     customer_id |-> json_string(data, "customerId"),
     usage_type |-> json_string(data, "usageType"),
     quantity |-> json_double(data, "quantity", p.quantity),
     is_internal |-> json_bool(data, "isInternal", FALSE),
     message |-> json_string(data, "message")]

TrackUsageCall(t, p) ==
    /\ Enter(t, [op |-> "trackUsage"] @@ p)
    /\ CallRequest(t, "trackUsage", NoLocal, Req("POST", "/usage/internal", TrackUsageBody(p)))
    /\ UNCHANGED impl

TrackUsageAfter(t, r) ==
    /\ IF r.state = "thrown" THEN Throw(t, r.error)
       ELSE Return(t, TrackUsageResult(r.data, params[t]))
    /\ UNCHANGED impl

\* The idempotency key emitEvent sends.
EmitEventKey(p) ==
    IF p.idempotency_key = ""
    THEN make_idempotency_key("evt", p.run_id, p.event_type, p.quantity)
    ELSE p.idempotency_key

EmitEventBody_AlwaysQuantity(p) ==
    JObj(PutIf(p.metadata # NoMetadata,
           PutIf(p.cost_units # 0,
             PutIf(p.description # "",
               PutIf(p.units # "",
                 Put(Put(Put(Put(NoFields, "runId", JStr(p.run_id)),
                             "eventType", JStr(p.event_type)),
                         "idempotencyKey", JStr(EmitEventKey(p))),
                     "quantity", JNum(p.quantity)),
                 "units", JStr(p.units)),
               "description", JStr(p.description)),
             "costUnits", JNum(p.cost_units)),
           "metadata", metadata_to_json(p.metadata)))

EmitEventBody(p) ==
    JObj(PutIf(p.metadata # NoMetadata,
           PutIf(p.cost_units # 0,
             PutIf(p.description # "",
               PutIf(p.units # "",
                 PutIf(p.quantity # 0,
                   Put(Put(Put(NoFields, "runId", JStr(p.run_id)),
                           "eventType", JStr(p.event_type)),
                       "idempotencyKey", JStr(EmitEventKey(p))),
                   "quantity", JNum(p.quantity)),
                 "units", JStr(p.units)),
               "description", JStr(p.description)),
             "costUnits", JNum(p.cost_units)),
           "metadata", metadata_to_json(p.metadata)))

\* EventResult as emitEvent fills it from the response.
EventResult(data) ==
    [id |-> json_string(data, "id"),
     run_id |-> json_string(data, "runId"),
     event_type |-> json_string(data, "eventType"),
     quantity |-> json_double(data, "quantity", 0),
     cost_units |-> json_double(data, "costUnits", 0),
     is_duplicate |-> json_bool(data, "isDuplicate", FALSE),
     timestamp |-> json_string(data, "timestamp")]

EmitEventCall(t, p) ==
    /\ Enter(t, [op |-> "emitEvent"] @@ p)
    /\ CallRequest(t, "emitEvent", NoLocal, Req("POST", "/run-events", EmitEventBody(p)))
    /\ UNCHANGED impl

EmitEventAfter(t, r) ==
    /\ IF r.state = "thrown" THEN Throw(t, r.error)
       ELSE Return(t, EventResult(r.data))
    /\ UNCHANGED impl

\* ------------------------------------------------------------ recordRun()

run_status_to_string(st) ==
    CASE st = "RUN_PENDING" -> "PENDING"
      [] st = "RUN_RUNNING" -> "RUNNING"
      [] st = "RUN_COMPLETED" -> "COMPLETED"
      [] st = "RUN_FAILED" -> "FAILED"
      [] st = "RUN_CANCELLED" -> "CANCELLED"
      [] st = "RUN_TIMEOUT" -> "TIMEOUT"
      [] OTHER -> "UNKNOWN"

run_status_from_string_ByPrefix(s) ==
    IF Substr(s, 0, 7) = "PENDING" THEN "RUN_PENDING"
    ELSE IF Substr(s, 0, 7) = "RUNNING" THEN "RUN_RUNNING"
    ELSE IF Substr(s, 0, 9) = "COMPLETED" THEN "RUN_COMPLETED"
    ELSE IF Substr(s, 0, 6) = "FAILED" THEN "RUN_FAILED"
    ELSE IF Substr(s, 0, 9) = "CANCELLED" THEN "RUN_CANCELLED"
    ELSE IF Substr(s, 0, 7) = "TIMEOUT" THEN "RUN_TIMEOUT"
    ELSE "RUN_PENDING"

run_status_from_string(s) ==
    IF s = "PENDING" THEN "RUN_PENDING"
    ELSE IF s = "RUNNING" THEN "RUN_RUNNING"
    ELSE IF s = "COMPLETED" THEN "RUN_COMPLETED"
    ELSE IF s = "FAILED" THEN "RUN_FAILED"
    ELSE IF s = "CANCELLED" THEN "RUN_CANCELLED"
    ELSE IF s = "TIMEOUT" THEN "RUN_TIMEOUT"
    ELSE "RUN_PENDING"

\* enum RunStatus.
RunStatuses ==
    {"RUN_PENDING", "RUN_RUNNING", "RUN_COMPLETED", "RUN_FAILED", "RUN_CANCELLED",
     "RUN_TIMEOUT"}

\* The strings handed to run_status_from_string: the six API tokens, every
\* proper prefix of one (the empty string among them), each in lower case and
\* capitalized, padded with a space on either side, doubled, spelled as the
\* enumerator, and the word run_status_to_string keeps for no status.
StatusTokens == {run_status_to_string(st) : st \in RunStatuses}

StatusStrings ==
    StatusTokens
    \cup {Substr(k, 0, n) : k \in StatusTokens, n \in 0..8}
    \cup {" " \o k : k \in StatusTokens}
    \cup {k \o " " : k \in StatusTokens}
    \cup {k \o k : k \in StatusTokens}
    \cup {"RUN_" \o k : k \in StatusTokens}
    \cup {"pending", "running", "completed", "failed", "cancelled", "timeout",
          "Pending", "Running", "Completed", "Failed", "Cancelled", "Timeout",
          "UNKNOWN", "CANCELED", "SUCCESS", "ACTIVE"}

\* The conversions are about to be applied to one input: a string to parse,
\* or a status to print and parse back.
InitStatus ==
    /\ variant \in Variants
    /\ config \in {[api_key |-> "sk_test", base_url |-> "", timeout_ms |-> 30000]}
    /\ env = Env
    /\ impl = Impl(config, env)
    /\ pc = [t \in Threads |-> Idle]
    /\ params \in {[t \in Threads |-> IF t = 1 THEN p ELSE NoParams] :
                     p \in {[op |-> "run_status_from_string", s |-> x] : x \in StatusStrings}
                           \cup {[op |-> "run_status_round_trip", status |-> st] :
                                   st \in RunStatuses}}
    /\ local = [t \in Threads |-> NoLocal]
    /\ calls = [t \in Threads |-> <<>>]
    /\ inflight = [t \in Threads |-> {}]
    /\ resp = [t \in Threads |-> NoResponse]
    /\ ret = [t \in Threads |-> NoReturn]
    /\ outcome = [t \in Threads |-> NoOutcome]

\* run_status_from_string(s).
FromString(t) ==
    /\ params[t].op = "run_status_from_string"
    /\ pc[t] = Idle
    /\ outcome[t] = NoOutcome
    /\ Return(t, run_status_from_string(params[t].s))
    /\ UNCHANGED <<variant, config, env, impl, params, calls, inflight, resp, ret>>

\* run_status_from_string(run_status_to_string(status)).
RoundTrip(t) ==
    /\ params[t].op = "run_status_round_trip"
    /\ pc[t] = Idle
    /\ outcome[t] = NoOutcome
    /\ Return(t, run_status_from_string(run_status_to_string(params[t].status)))
    /\ UNCHANGED <<variant, config, env, impl, params, calls, inflight, resp, ret>>

NextStatus == FromString(1) \/ RoundTrip(1)

SpecStatus == InitStatus /\ [][NextStatus]_vars

\* Metadata maps: up to two entries, with values that are empty or read like
\* JSON text.
MetadataValues == {"", "v", "1", "true", "null", "{}"}

MetadataMaps ==
    UNION {[ks -> MetadataValues] : ks \in SUBSET {"k", "n"}}

\* The members of the JSON objects handed to metadata_from_json: strings and
\* every other kind of value, nested ones among them.
JsonValues ==
    {JStr("v"), JStr(""), JNum(5), JNum(0), JBool(TRUE), JBool(FALSE), JNull,
     JArr(<<>>), JArr(<<JNum(1), JStr("a")>>), JObj([k \in {} |-> JNull]),
     JObj([k \in {"a"} |-> JNum(1)]),
     JObj([k \in {"a", "n"} |-> IF k = "a" THEN JBool(TRUE) ELSE JArr(<<JNull>>)])}

JsonObjects ==
    {JObj(o) : o \in UNION {[ks -> JsonValues] : ks \in SUBSET {"k", "n"}}}

\* The codec is about to be applied to one input: a map to encode and decode,
\* or a JSON value (an object, or not one) to decode.
InitMetadata ==
    /\ variant \in Variants
    /\ config \in {[api_key |-> "sk_test", base_url |-> "", timeout_ms |-> 30000]}
    /\ env = Env
    /\ impl = Impl(config, env)
    /\ pc = [t \in Threads |-> Idle]
    /\ params \in {[t \in Threads |-> IF t = 1 THEN p ELSE NoParams] :
                     p \in {[op |-> "metadata_round_trip", m |-> x] : x \in MetadataMaps}
                           \cup {[op |-> "metadata_from_json", j |-> x] :
                                   x \in JsonObjects \cup {JNull, JStr("v"), JArr(<<>>)}}}
    /\ local = [t \in Threads |-> NoLocal]
    /\ calls = [t \in Threads |-> <<>>]
    /\ inflight = [t \in Threads |-> {}]
    /\ resp = [t \in Threads |-> NoResponse]
    /\ ret = [t \in Threads |-> NoReturn]
    /\ outcome = [t \in Threads |-> NoOutcome]

\* metadata_from_json(metadata_to_json(m)).
MetadataRoundTrip(t) ==
    /\ params[t].op = "metadata_round_trip"
    /\ pc[t] = Idle
    /\ outcome[t] = NoOutcome
    /\ Return(t, metadata_from_json(metadata_to_json(params[t].m)))
    /\ UNCHANGED <<variant, config, env, impl, params, calls, inflight, resp, ret>>

\* metadata_from_json(j).
MetadataDecode(t) ==
    /\ params[t].op = "metadata_from_json"
    /\ pc[t] = Idle
    /\ outcome[t] = NoOutcome
    /\ Return(t, metadata_from_json(params[t].j))
    /\ UNCHANGED <<variant, config, env, impl, params, calls, inflight, resp, ret>>

NextMetadata == MetadataRoundTrip(1) \/ MetadataDecode(1)

SpecMetadata == InitMetadata /\ [][NextMetadata]_vars

\* What a scalar member without an initializer can hold after
\* default-initialization: its value is indeterminate, zero being one outcome
\* the build can produce and anything else another.
IndeterminateNumbers == {0, 7}
IndeterminateBools == {FALSE, TRUE}

\* The objects `T x;` can give for each of the structs of types.hpp that
\* declare no constructor: strings, vectors and maps are empty, every scalar
\* member is indeterminate.
DefaultConstructed(type) ==
    CASE type = "TrackUsageParams" ->
            {[customer_id |-> "", meter |-> "", quantity |-> q, idempotency_key |-> "",
              units |-> "", description |-> "", metadata |-> NoMetadata] :
                q \in IndeterminateNumbers}
      [] type = "PingResult" ->
            {[ok |-> b, status |-> "", latency_ms |-> n, timestamp |-> ts] :
                b \in IndeterminateBools, n \in IndeterminateNumbers,
                ts \in IndeterminateNumbers}
      [] type = "TrackUsageResult" ->
            {[success |-> b, usage_event_id |-> "", customer_id |-> "", usage_type |-> "",
              quantity |-> q, is_internal |-> i, message |-> ""] :
                b \in IndeterminateBools, q \in IndeterminateNumbers,
                i \in IndeterminateBools}
      [] type = "CustomerResult" ->
            {[id |-> "", external_customer_id |-> "", onchain_address |-> "", status |-> "",
              is_internal |-> i, metadata |-> NoMetadata, created_at |-> "",
              updated_at |-> ""] : i \in IndeterminateBools}
      [] type = "ListCustomersResult" ->
            {[customers |-> <<>>, total |-> n] : n \in IndeterminateNumbers}
      [] type = "RunResult" ->
            {[id |-> "", customer_id |-> "", workflow_id |-> "", workflow_name |-> "",
              status |-> st, correlation_id |-> "", created_at |-> ""] :
                st \in RunStatuses}
      [] type = "EndRunResult" ->
            {[id |-> "", status |-> st, ended_at |-> "", duration_ms |-> d,
              event_count |-> n, total_cost_units |-> ""] :
                st \in RunStatuses, d \in IndeterminateNumbers, n \in IndeterminateNumbers}
      [] type = "EventResult" ->
            {[id |-> "", run_id |-> "", event_type |-> "", quantity |-> q,
              cost_units |-> c, is_duplicate |-> b, timestamp |-> ""] :
                q \in IndeterminateNumbers, c \in IndeterminateNumbers,
                b \in IndeterminateBools}
      [] type = "RecordRunResult" ->
            {[run |-> [id |-> "", workflow_id |-> "", workflow_name |-> "", status |-> st,
                       duration_ms |-> d],
              events |-> [created |-> c, duplicates |-> u],
              total_cost_units |-> "", summary |-> ""] :
                st \in RunStatuses, d \in IndeterminateNumbers,
                c \in IndeterminateNumbers, u \in IndeterminateNumbers}
      [] type = "EmitEventParams" ->
            {[run_id |-> "", event_type |-> "", quantity |-> 0, units |-> "",
              description |-> "", cost_units |-> 0, idempotency_key |-> "",
              metadata |-> NoMetadata]}
      [] type = "RecordRunEvent" ->
            {[event_type |-> "", quantity |-> 0, units |-> "", description |-> "",
              cost_units |-> 0, metadata |-> NoMetadata]}

\* The structs without a constructor, and those with one.
PlainStructs ==
    {"TrackUsageParams", "PingResult", "TrackUsageResult", "CustomerResult",
     "ListCustomersResult", "RunResult", "EndRunResult", "EventResult", "RecordRunResult"}

InitializedStructs == {"EmitEventParams", "RecordRunEvent"}

\* `T x;` in a caller, the object then read.
DefaultConstruct(t, type) ==
    /\ pc[t] = Idle
    /\ params[t] = NoParams
    /\ params' = [params EXCEPT ![t] = [op |-> "default_construct", type |-> type]]
    /\ \E x \in DefaultConstructed(type) : Return(t, x)
    /\ UNCHANGED <<variant, config, env, impl, calls, inflight, resp, ret>>

NextStructs == \E type \in PlainStructs \cup InitializedStructs : DefaultConstruct(1, type)

SpecStructs == Init /\ [][NextStructs]_vars

\* The display name of a workflow about to be created: '_' and '-' become
\* spaces, then the first letter of each word is capitalized.
Spaced(c) == IF c = "_" \/ c = "-" THEN " " ELSE c

RECURSIVE Capitalize(_, _)
Capitalize(s, cap_next) ==
    IF s = "" THEN ""
    ELSE LET c == Spaced(Head(s))
             d == IF cap_next /\ IsIn(Lower, c) THEN Chr(Ord(c) - Ord("a") + Ord("A")) ELSE c
         IN  d \o Capitalize(Tail(s), d = " ")

DisplayName(workflow) == Capitalize(workflow, TRUE)

\* The loop over workflows["data"]: whether entry w is the one looked for.
\* The picojson build skips entries that are no objects.
Matches(v, w, workflow) ==
    /\ v = "picojson" => w.kind = "obj"
    /\ json_string(w, "slug") = workflow \/ json_string(w, "id") = workflow

\* FindWorkflow without the break: the last matching entry wins.
FindWorkflow_LastMatch(v, arr, workflow) ==
    IF \E i \in 1..Len(arr) : Matches(v, arr[i], workflow)
    THEN CHOOSE i \in 1..Len(arr) :
            /\ Matches(v, arr[i], workflow)
            /\ \A j \in (i + 1)..Len(arr) : ~Matches(v, arr[j], workflow)
    ELSE 0

\* The index of the first matching entry, 0 when there is none.
FindWorkflow(v, arr, workflow) ==
    IF \E i \in 1..Len(arr) : Matches(v, arr[i], workflow)
    THEN CHOOSE i \in 1..Len(arr) :
            /\ Matches(v, arr[i], workflow)
            /\ \A j \in 1..(i - 1) : ~Matches(v, arr[j], workflow)
    ELSE 0

CreateWorkflowBody(workflow) ==
    JObj(Put(Put(Put(NoFields, "name", JStr(DisplayName(workflow))),
                 "slug", JStr(workflow)), "productSurface", JStr("CUSTOM")))

\* startRun(): the body of POST /runs.
StartRunBody(p, workflow_id) ==
    JObj(PutIf(p.metadata # NoMetadata,
           PutIf(p.correlation_id # "",
             PutIf(p.external_run_id # "",
               Put(Put(NoFields, "customerId", JStr(p.customer_id)),
                   "workflowId", JStr(workflow_id)),
               "externalRunId", JStr(p.external_run_id)),
             "correlationId", JStr(p.correlation_id)),
           "metadata", metadata_to_json(p.metadata)))

\* EventKey that scopes the caller's external run id by the server's run id.
EventKey_RunScoped(p, run_id, evt, i) ==
    IF p.external_run_id # ""
    THEN p.external_run_id \o ":" \o run_id \o ":" \o evt.event_type \o ":" \o DecStr(i)
    ELSE make_idempotency_key_int("run", run_id, evt.event_type, i)

\* The idempotency key of the event at index i (0-based) of the batch.
EventKey(p, run_id, evt, i) ==
    IF p.external_run_id # ""
    THEN p.external_run_id \o ":" \o evt.event_type \o ":" \o DecStr(i)
    ELSE make_idempotency_key_int("run", run_id, evt.event_type, i)

EventJson(p, run_id, evt, i) ==
    JObj(Put(
      PutIf(evt.metadata # NoMetadata,
        PutIf(evt.cost_units # 0,
          PutIf(evt.description # "",
            PutIf(evt.units # "",
              PutIf(evt.quantity # 0,
                Put(Put(NoFields, "runId", JStr(run_id)), "eventType", JStr(evt.event_type)),
                "quantity", JNum(evt.quantity)),
              "units", JStr(evt.units)),
            "description", JStr(evt.description)),
          "costUnits", JNum(evt.cost_units)),
        "metadata", metadata_to_json(evt.metadata)),
      "idempotencyKey", JStr(EventKey(p, run_id, evt, i))))

BatchBody(p, run_id) ==
    Obj1("events", JArr([i \in 1..Len(p.events) |-> EventJson(p, run_id, p.events[i], i - 1)]))

\* endRun(): the body of PATCH /runs/{id}.
EndRunBody(p) ==
    JObj(PutIf(p.error_code # "",
           PutIf(p.error_message # "",
             Put(NoFields, "status", JStr(run_status_to_string(p.status))),
             "errorMessage", JStr(p.error_message)),
           "errorCode", JStr(p.error_code)))

\* Step 2: startRun(run_params) is entered with the resolved workflow id.
StartRun(t, workflow_id, workflow_name) ==
    CallRequest(t, "rr_start",
                [local[t] EXCEPT !.workflow_id = workflow_id, !.workflow_name = workflow_name],
                Req("POST", "/runs", StartRunBody(params[t], workflow_id)))

\* Step 4: endRun(run.id, end_params) is entered.
EndRun(t, frame) ==
    CallRequest(t, "rr_end", frame, Req("PATCH", "/runs/" \o frame.run_id, EndRunBody(params[t])))

\* RecordRunCall that resolves every workflow string through the listing.
RecordRunCall_AlwaysResolve(t, p) ==
    /\ Enter(t, [op |-> "recordRun"] @@ p)
    /\ CallRequest(t, "rr_list",
                   [NoLocal EXCEPT !.workflow_id = p.workflow, !.workflow_name = p.workflow],
                   Req("GET", "/workflows", JNull))
    /\ UNCHANGED impl

\* recordRun() up to its first request.
RecordRunCall(t, p) ==
    /\ Enter(t, [op |-> "recordRun"] @@ p)
    /\ IF Substr(p.workflow, 0, 3) # "wf_"
       THEN CallRequest(t, "rr_list",
                        [NoLocal EXCEPT !.workflow_id = p.workflow, !.workflow_name = p.workflow],
                        Req("GET", "/workflows", JNull))
       ELSE CallRequest(t, "rr_start",
                        [NoLocal EXCEPT !.workflow_id = p.workflow, !.workflow_name = p.workflow],
                        Req("POST", "/runs", StartRunBody(p, p.workflow)))
    /\ UNCHANGED impl

\* RecordRunAfterList without the catch block: a failed listing ends the call.
RecordRunAfterList_Rethrow(t, r) ==
    /\ IF r.state = "thrown" THEN Throw(t, r.error)
       ELSE /\ LET arr == json_arr(r.data, "data")
                   i == FindWorkflow(variant, arr, params[t].workflow)
               IN  IF i # 0
                   THEN StartRun(t, json_string(arr[i], "id"), json_string(arr[i], "name"))
                   ELSE CallRequest(t, "rr_create", local[t],
                                    Req("POST", "/workflows", CreateWorkflowBody(params[t].workflow)))
            /\ UNCHANGED outcome
    /\ UNCHANGED impl

\* Step 1 after GET /workflows: the catch block, a match, or the creation.
RecordRunAfterList(t, r) ==
    /\ IF r.state = "thrown" THEN StartRun(t, params[t].workflow, local[t].workflow_name)
       ELSE LET arr == json_arr(r.data, "data")
                i == FindWorkflow(variant, arr, params[t].workflow)
            IN  IF i # 0
                THEN StartRun(t, json_string(arr[i], "id"), json_string(arr[i], "name"))
                ELSE CallRequest(t, "rr_create", local[t],
                                 Req("POST", "/workflows", CreateWorkflowBody(params[t].workflow)))
    /\ UNCHANGED <<impl, outcome>>

\* Step 1 after POST /workflows.
RecordRunAfterCreate(t, r) ==
    /\ IF r.state = "thrown" THEN StartRun(t, params[t].workflow, local[t].workflow_name)
       ELSE StartRun(t, json_string(r.data, "id"), json_string(r.data, "name"))
    /\ UNCHANGED <<impl, outcome>>

\* RecordRunAfterStart that tries POST /runs a second time when the first fails.
RecordRunAfterStart_Retry(t, r) ==
    /\ IF r.state = "thrown"
       THEN IF Len(SelectSeq(calls[t], LAMBDA c : c.path = "/runs")) < 2
            THEN /\ StartRun(t, local[t].workflow_id, local[t].workflow_name)
                 /\ UNCHANGED outcome
            ELSE Throw(t, r.error)
       ELSE LET run_id == json_string(r.data, "id")
                frame == [local[t] EXCEPT !.run_id = run_id]
            IN  /\ IF params[t].events # <<>>
                   THEN CallRequest(t, "rr_batch", frame,
                                    Req("POST", "/run-events/batch", BatchBody(params[t], run_id)))
                   ELSE EndRun(t, frame)
                /\ UNCHANGED outcome
    /\ UNCHANGED impl

\* RecordRunAfterStart that sends the batch whether or not there are events.
RecordRunAfterStart_AlwaysBatch(t, r) ==
    /\ IF r.state = "thrown" THEN Throw(t, r.error)
       ELSE LET run_id == json_string(r.data, "id")
                frame == [local[t] EXCEPT !.run_id = run_id]
            IN  /\ CallRequest(t, "rr_batch", frame,
                               Req("POST", "/run-events/batch", BatchBody(params[t], run_id)))
                /\ UNCHANGED outcome
    /\ UNCHANGED impl

\* Steps 2 and 3 after POST /runs: the batch when there are events.
RecordRunAfterStart(t, r) ==
    /\ IF r.state = "thrown" THEN Throw(t, r.error)
       ELSE LET run_id == json_string(r.data, "id")
                frame == [local[t] EXCEPT !.run_id = run_id]
            IN  /\ IF params[t].events # <<>>
                   THEN CallRequest(t, "rr_batch", frame,
                                    Req("POST", "/run-events/batch", BatchBody(params[t], run_id)))
                   ELSE EndRun(t, frame)
                /\ UNCHANGED outcome
    /\ UNCHANGED impl

\* RecordRunAfterBatch that ends the run even when the batch failed.
RecordRunAfterBatch_Swallow(t, r) ==
    /\ IF r.state = "thrown" THEN EndRun(t, local[t])
       ELSE EndRun(t, [local[t] EXCEPT !.events_created = json_int(r.data, "created", 0),
                                       !.events_duplicates = json_int(r.data, "duplicates", 0)])
    /\ UNCHANGED <<impl, outcome>>

\* Step 3 after POST /run-events/batch.
RecordRunAfterBatch(t, r) ==
    /\ IF r.state = "thrown" THEN Throw(t, r.error)
       ELSE /\ EndRun(t, [local[t] EXCEPT !.events_created = json_int(r.data, "created", 0),
                                          !.events_duplicates = json_int(r.data, "duplicates", 0)])
            /\ UNCHANGED outcome
    /\ UNCHANGED impl

\* Step 4 after PATCH /runs/{id}, and the result.
RecordRunAfterEnd(t, r) ==
    /\ IF r.state = "thrown" THEN Throw(t, r.error)
       ELSE Return(t, [run_id |-> local[t].run_id,
                       workflow_id |-> local[t].workflow_id,
                       workflow_name |-> local[t].workflow_name,
                       status |-> params[t].status,
                       duration_ms |-> json_int(r.data, "durationMs", 0),
                       events_created |-> local[t].events_created,
                       events_duplicates |-> local[t].events_duplicates,
                       total_cost_units |-> json_string(r.data, "totalCostUnits")])
    /\ UNCHANGED impl

\* ------------------------------------------------------------- request()

\* What the caller of request() does with its result.
After(t, r) ==
    CASE pc[t].site = "ping" -> PingAfter(t, r)
      [] pc[t].site = "getCustomer" -> GetCustomerAfter(t, r)
      [] pc[t].site = "getBalance" -> GetBalanceAfter(t, r)
      [] pc[t].site = "trackUsage" -> TrackUsageAfter(t, r)
      [] pc[t].site = "emitEvent" -> EmitEventAfter(t, r)
      [] pc[t].site = "rr_list" -> RecordRunAfterList(t, r)
      [] pc[t].site = "rr_create" -> RecordRunAfterCreate(t, r)
      [] pc[t].site = "rr_start" -> RecordRunAfterStart(t, r)
      [] pc[t].site = "rr_batch" -> RecordRunAfterBatch(t, r)
      [] pc[t].site = "rr_end" -> RecordRunAfterEnd(t, r)

\* The requests of the running call that went onto the wire, in order.
Sent(t) == SelectSeq(calls[t], LAMBDA c : c.issued)

SetResult(log, result) == [log EXCEPT ![Len(log)].result = result]

\* A string that holds a byte sequence that is not UTF-8; the model writes
\* the offending byte as the text 0xFF.
InvalidUtf8(s) == s \in {"c1_0xFF", "v_0xFF"}

\* Whether a JSON value holds such a string, as a value or as a member name.
RECURSIVE HasInvalidUtf8(_)
HasInvalidUtf8(j) ==
    CASE j.kind = "str" -> InvalidUtf8(j.val)
      [] j.kind = "arr" -> \E i \in 1..Len(j.val) : HasInvalidUtf8(j.val[i])
      [] j.kind = "obj" -> \E k \in DOMAIN j.val : InvalidUtf8(k) \/ HasInvalidUtf8(j.val[k])
      [] OTHER -> FALSE

\* body.dump() in request(): nlohmann's dump throws json::type_error (316) on
\* a string that is not UTF-8; picojson's serialize() copies the bytes.  Only
\* POST and PATCH serialize the body.
DumpThrows(v, req) ==
    /\ v = "nlohmann"
    /\ req.method \in {"POST", "PATCH"}
    /\ HasInvalidUtf8(req.body)

\* request() up to curl_easy_perform: the handle is made, the URL is built
\* from the base URL as it is now, and the transfer starts.  inflight holds
\* the calls whose curl handle and header list are held.
RequestBegin(t) ==
    /\ pc[t].phase = "call"
    /\ ~DumpThrows(variant, local[t].req)
    /\ LET rq == [method |-> local[t].req.method, path |-> local[t].req.path,
                  url |-> RequestUrl(impl.base_url, local[t].req.path),
                  body |-> local[t].req.body, issued |-> TRUE, result |-> "pending"]
       IN  /\ calls' = [calls EXCEPT ![t] = Append(@, rq)]
           /\ inflight' = [inflight EXCEPT ![t] = @ \cup {Len(calls[t]) + 1}]
    /\ pc' = [pc EXCEPT ![t] = At(pc[t].site, "wait")]
    /\ UNCHANGED <<variant, config, env, impl, params, local, resp, ret, outcome>>

\* curl_easy_init returns NULL: request() throws and nothing is sent.
RequestInitFails(t) ==
    /\ pc[t].phase = "call"
    /\ calls' = [calls EXCEPT ![t] =
                    Append(@, [method |-> local[t].req.method, path |-> local[t].req.path,
                               url |-> "", body |-> local[t].req.body,
                               issued |-> FALSE, result |-> "thrown"])]
    /\ ret' = [ret EXCEPT ![t] = InitFailure]
    /\ pc' = [pc EXCEPT ![t] = At(pc[t].site, "ret")]
    /\ UNCHANGED <<variant, config, env, impl, params, local, inflight, resp, outcome>>

\* The handle and the header list are made, then body.dump() throws: the
\* exception leaves request() past curl_slist_free_all and curl_easy_cleanup,
\* which are reached only after curl_easy_perform.  Nothing is sent.
RequestDumpThrows(t) ==
    /\ pc[t].phase = "call"
    /\ DumpThrows(variant, local[t].req)
    /\ calls' = [calls EXCEPT ![t] =
                    Append(@, [method |-> local[t].req.method, path |-> local[t].req.path,
                               url |-> RequestUrl(impl.base_url, local[t].req.path),
                               body |-> local[t].req.body,
                               issued |-> FALSE, result |-> "thrown"])]
    /\ inflight' = [inflight EXCEPT ![t] = @ \cup {Len(calls[t]) + 1}]
    /\ ret' = [ret EXCEPT ![t] =
                  Thrown([type |-> "json::type_error", status |-> 0, code |-> "",
                          message |-> "invalid UTF-8 byte"])]
    /\ pc' = [pc EXCEPT ![t] = At(pc[t].site, "ret")]
    /\ UNCHANGED <<variant, config, env, impl, params, local, resp, outcome>>

\* curl_easy_perform returns and request() classifies the response.
RequestEnd(t) ==
    /\ pc[t].phase = "wait"
    /\ \E res \in {"CURLE_OK", "CURLE_OPERATION_TIMEDOUT", "CURLE_COULDNT_CONNECT"} :
       \E code \in Statuses :
       \E i \in 1..Len(ServerBodies(local[t].req)) :
          LET r == [res |-> res,
                    http_code |-> IF res = "CURLE_OK" THEN code ELSE 0,
                    body |-> IF res = "CURLE_OK" THEN ServerBodies(local[t].req)[i] ELSE JNull]
          IN  /\ resp' = [resp EXCEPT ![t] = r]
              /\ ret' = [ret EXCEPT ![t] = RequestOutcome(variant, r)]
              /\ calls' = [calls EXCEPT ![t] = SetResult(@, RequestOutcome(variant, r).state)]
    /\ inflight' = [inflight EXCEPT ![t] = @ \ {Len(calls[t])}]
    /\ pc' = [pc EXCEPT ![t] = At(pc[t].site, "ret")]
    /\ UNCHANGED <<variant, config, env, impl, params, local, outcome>>

\* request() has returned or thrown: its caller goes on.  The response and
\* what request() made of it stay on view until the caller's next request or
\* next call.
Resume(t) ==
    /\ pc[t].phase = "ret"
    /\ After(t, ret[t])
    /\ IF pc'[t] = Idle
       THEN UNCHANGED <<resp, ret>>
       ELSE /\ resp' = [resp EXCEPT ![t] = NoResponse]
            /\ ret' = [ret EXCEPT ![t] = NoReturn]
    /\ UNCHANGED <<variant, config, env, params, calls, inflight>>

\* ----------------------------------------------------- the specifications

Step(t) ==
    \/ PingCall(t)
    \/ PingSwap(t)
    \/ \E id \in CustomerIds : GetCustomerCall(t, id)
    \/ \E p \in TrackUsageInputs : TrackUsageCall(t, p)
    \/ \E p \in EmitEventInputs : EmitEventCall(t, p)
    \/ \E p \in RecordRunInputs : RecordRunCall(t, p)
    \/ RequestBegin(t)
    \/ RequestInitFails(t)
    \/ RequestEnd(t)
    \/ Resume(t)

\* One caller: every call returns before the next one starts.
Next == Step(1)

Spec == Init /\ [][Next]_vars

\* One caller asks for balances, against a server whose failure bodies carry
\* message and error members of every shape.
NextBalance ==
    \/ \E id \in CustomerIds : GetBalanceCall(1, id)
    \/ RequestBegin(1)
    \/ RequestInitFails(1)
    \/ RequestEnd(1)
    \/ Resume(1)

SpecBalance == Init /\ [][NextBalance]_vars

\* Runs without events for workflow strings of several shapes, none of them
\* a server-assigned id.
ResolveInputs ==
    {RecordRunParams(w, <<>>, "RUN_COMPLETED", "", "") :
        w \in {"my-run", "my_long-run", "a--b", "x", "Train 2", "wf", "wfx_1"}}

\* One caller records such runs.
NextResolve ==
    \/ \E p \in ResolveInputs : RecordRunCall(1, p)
    \/ RequestBegin(1)
    \/ RequestInitFails(1)
    \/ RequestEnd(1)
    \/ Resume(1)

SpecResolve == Init /\ [][NextResolve]_vars

\* TrackUsageParams whose customer id or metadata value may hold bytes that
\* are not UTF-8.
HandleInputs ==
    {[customer_id |-> c, meter |-> "tokens", quantity |-> 42, idempotency_key |-> "key1",
      units |-> "", description |-> "", metadata |-> m] :
        c \in {"c1", "c1_0xFF"},
        m \in {NoMetadata, [k \in {"k"} |-> "v"], [k \in {"k"} |-> "v_0xFF"]}}

\* One caller tracks usage and fetches customers; every exit of request() is
\* among the steps.
NextHandles ==
    \/ \E p \in HandleInputs : TrackUsageCall(1, p)
    \/ \E id \in CustomerIds : GetCustomerCall(1, id)
    \/ RequestBegin(1)
    \/ RequestInitFails(1)
    \/ RequestDumpThrows(1)
    \/ RequestEnd(1)
    \/ Resume(1)

SpecHandles == Init /\ [][NextHandles]_vars

\* Two threads share one client and their steps interleave: thread 1 pings
\* or fetches customers, thread 2 (a health monitor) pings.  Client has no
\* lock around base_url.
StepConc(t) ==
    \/ PingCall(t)
    \/ PingSwap(t)
    \/ t = 1 /\ \E id \in CustomerIds : GetCustomerCall(t, id)
    \/ RequestBegin(t)
    \/ RequestInitFails(t)
    \/ RequestEnd(t)
    \/ Resume(t)

NextConc == \E t \in Threads : StepConc(t)

SpecConc == Init /\ [][NextConc]_vars

\* A caller constructs the client and then, when there is one, pings and
\* fetches customers with it.
StepCtor(t) ==
    \/ Construct(t)
    \/ impl # NoClient /\ PingCall(t)
    \/ impl # NoClient /\ PingSwap(t)
    \/ impl # NoClient /\ \E id \in CustomerIds : GetCustomerCall(t, id)
    \/ impl # NoClient /\ RequestBegin(t)
    \/ impl # NoClient /\ RequestInitFails(t)
    \/ impl # NoClient /\ RequestEnd(t)
    \/ impl # NoClient /\ Resume(t)

NextCtor == StepCtor(1)

SpecCtor == InitCtor /\ [][NextCtor]_vars

\* The caller lets go of what a finished call left it: the result or the
\* exception.  What went over the wire stays on record.
Discard(t) ==
    /\ pc[t] = Idle
    /\ outcome[t] # NoOutcome
    /\ resp' = [resp EXCEPT ![t] = NoResponse]
    /\ ret' = [ret EXCEPT ![t] = NoReturn]
    /\ outcome' = [outcome EXCEPT ![t] = NoOutcome]
    /\ UNCHANGED <<variant, config, env, impl, pc, params, local, calls, inflight>>

\* The runs that are retried: events to send, the workflow given by its id.
RetryInputs == {p \in RecordRunInputs : p.events # <<>> /\ Substr(p.workflow, 0, 3) = "wf_"}

\* The first recordRun of a logical run, as call 1.
FirstAttempt(p) ==
    /\ params[1] = NoParams
    /\ params[2] = NoParams
    /\ RecordRunCall(1, p)

\* The same recordRun again with the same parameters, as call 2, once the
\* first has ended.
Retry ==
    /\ params[1].op = "recordRun"
    /\ pc[1] = Idle
    /\ outcome[1] = NoOutcome
    /\ params[2] = NoParams
    /\ RecordRunCall(2, [k \in DOMAIN params[1] \ {"op"} |-> params[1][k]])

\* A trackUsage with an explicit idempotency key, as call 1.
FirstTrackUsage(p) ==
    /\ p.idempotency_key # ""
    /\ params[1] = NoParams
    /\ params[2] = NoParams
    /\ TrackUsageCall(1, p)

\* The same trackUsage again with the same parameters, as call 2, once the
\* first has ended.
RepeatTrackUsage ==
    /\ params[1].op = "trackUsage"
    /\ pc[1] = Idle
    /\ outcome[1] = NoOutcome
    /\ params[2] = NoParams
    /\ TrackUsageCall(2, [k \in DOMAIN params[1] \ {"op"} |-> params[1][k]])

NextRetry ==
    \/ \E p \in RetryInputs : FirstAttempt(p)
    \/ \E p \in TrackUsageInputs : FirstTrackUsage(p)
    \/ Discard(1)
    \/ Retry
    \/ RepeatTrackUsage
    \/ \E t \in Threads : RequestBegin(t) \/ RequestInitFails(t) \/ RequestEnd(t) \/ Resume(t)

SpecRetry == Init /\ [][NextRetry]_vars

\* Calls without an explicit idempotency key that differ in the fields the
\* key is made of and in those it is not.
KeyedTrackInputs ==
    {[customer_id |-> c, meter |-> "tokens", quantity |-> q, idempotency_key |-> "",
      units |-> u, description |-> u, metadata |-> m] :
        c \in {"c1", "c2"}, q \in {42, 7}, u \in {"", "tokens"},
        m \in {NoMetadata, [k \in {"k"} |-> "v"]}}

KeyedEventInputs ==
    {[run_id |-> "run_1", event_type |-> ty, quantity |-> q, units |-> u,
      description |-> u, cost_units |-> c, idempotency_key |-> "", metadata |-> NoMetadata] :
        ty \in {"a", "b"}, q \in {0, 50}, u \in {"", "epochs"}, c \in {0, 2}}

\* A first call without an explicit key, as call 1.
FirstKeyed ==
    /\ params[1] = NoParams
    /\ params[2] = NoParams
    /\ \/ \E p \in KeyedTrackInputs : TrackUsageCall(1, p)
       \/ \E p \in KeyedEventInputs : EmitEventCall(1, p)

\* A later call of the same operation on the same client, as call 2, once
\* the first has ended, whatever its end was.
SecondKeyed ==
    /\ pc[1] = Idle
    /\ outcome[1] = NoOutcome
    /\ params[2] = NoParams
    /\ \/ params[1].op = "trackUsage" /\ \E p \in KeyedTrackInputs : TrackUsageCall(2, p)
       \/ params[1].op = "emitEvent" /\ \E p \in KeyedEventInputs : EmitEventCall(2, p)

NextKeys ==
    \/ FirstKeyed
    \/ Discard(1)
    \/ SecondKeyed
    \/ \E t \in Threads : RequestBegin(t) \/ RequestInitFails(t) \/ RequestEnd(t) \/ Resume(t)

SpecKeys == Init /\ [][NextKeys]_vars

\* ------------------------------------------------------------- the claims

\* The place of a request in recordRun's order, 0 for any other request.
Rank(c) ==
    IF c.method = "GET" /\ c.path = "/workflows" THEN 1
    ELSE IF c.method = "POST" /\ c.path = "/workflows" THEN 2
    ELSE IF c.method = "POST" /\ c.path = "/runs" THEN 3
    ELSE IF c.method = "POST" /\ c.path = "/run-events/batch" THEN 4
    ELSE IF c.method = "PATCH" /\ Substr(c.path, 0, 6) = "/runs/" THEN 5
    ELSE 0

HasRank(log, n) == \E i \in 1..Len(log) : Rank(log[i]) = n

\* C1: the requests recordRun has issued are, in order, GET /workflows,
\* POST /workflows (only after the GET), POST /runs, POST /run-events/batch,
\* PATCH /runs/{id}, each at most once; only the last one issued can still
\* be in flight, so none was issued before the previous one completed.
C1_RequestOrder ==
    \A t \in Threads : params[t].op = "recordRun" =>
        LET s == Sent(t)
        IN  /\ \A i \in 1..Len(s) : Rank(s[i]) > 0
            /\ \A i, j \in 1..Len(s) : i < j => Rank(s[i]) < Rank(s[j])
            /\ \A i \in 1..Len(s) : Rank(s[i]) = 2 => i > 1 /\ Rank(s[i - 1]) = 1
            /\ \A i \in 1..Len(s) : Rank(s[i]) \in {4, 5} => HasRank(SubSeq(s, 1, i - 1), 3)
            /\ \A i \in 1..Len(s) : s[i].result = "pending" => i = Len(s)
            /\ Cardinality(inflight[t]) <= 1

C1_Witness ==
    /\ params[1].op = "recordRun"
    /\ pc[1] = Idle
    /\ outcome[1].state = "returned"
    /\ Len(Sent(1)) = 5

WorkflowIdSent(c) == c.body.val["workflowId"].val

\* C2: when a request of the workflow resolution (GET or POST /workflows)
\* throws, recordRun does not end there: its next request() call is
\* POST /runs with workflowId equal to params.workflow.
C2_ResolutionFallsBack ==
    \A t \in Threads : params[t].op = "recordRun" =>
        \A i \in 1..Len(calls[t]) :
            (calls[t][i].path = "/workflows" /\ calls[t][i].result = "thrown") =>
                IF i < Len(calls[t])
                THEN /\ Rank(calls[t][i + 1]) = 3
                     /\ WorkflowIdSent(calls[t][i + 1]) = params[t].workflow
                ELSE \/ pc[t].phase = "ret"
                     \/ /\ pc[t] = At("rr_start", "call")
                        /\ local[t].req.path = "/runs"
                        /\ WorkflowIdSent(local[t].req) = params[t].workflow

C2_Witness ==
    /\ params[1].op = "recordRun"
    /\ Len(calls[1]) >= 2
    /\ calls[1][1].path = "/workflows" /\ calls[1][1].issued /\ calls[1][1].result = "thrown"
    /\ Rank(calls[1][2]) = 3 /\ calls[1][2].issued
    /\ WorkflowIdSent(calls[1][2]) = "my-run"

Last(log) == log[Len(log)]

\* C3: a finished recordRun either returned after POST /runs, the batch (sent
\* exactly when there are events) and PATCH /runs/{id} all returned, or threw
\* the error of the first of these three that failed, which is then the last
\* request() call it made: after a failed batch there is no PATCH.
C3_TerminalStates ==
    \A t \in Threads : (params[t].op = "recordRun" /\ pc[t] = Idle) =>
        LET log == calls[t]
        IN  /\ outcome[t].state \in {"returned", "threw"}
            /\ outcome[t].state = "returned" =>
                /\ \E i \in 1..Len(log) : Rank(log[i]) = 3 /\ log[i].result = "returned"
                /\ (params[t].events # <<>>) <=> HasRank(log, 4)
                /\ \A i \in 1..Len(log) : Rank(log[i]) = 4 => log[i].result = "returned"
                /\ Rank(Last(log)) = 5 /\ Last(log).result = "returned"
            /\ outcome[t].state = "threw" =>
                /\ Rank(Last(log)) \in {3, 4, 5} /\ Last(log).result = "thrown"
                /\ \A i \in 1..(Len(log) - 1) : Rank(log[i]) >= 3 => log[i].result = "returned"
                /\ ret[t].state = "thrown" /\ outcome[t].error = ret[t].error
                /\ Rank(Last(log)) = 4 => ~HasRank(log, 5)

\* A batch that failed on the wire after the run was started.
C3_Witness ==
    /\ params[1].op = "recordRun" /\ pc[1] = Idle
    /\ outcome[1].state = "threw"
    /\ Rank(Last(calls[1])) = 4 /\ Last(calls[1]).issued
    /\ \E i \in 1..Len(calls[1]) : Rank(calls[1][i]) = 3 /\ calls[1][i].result = "returned"

\* C4: recordRun with no events never calls POST /run-events/batch; when it
\* throws, a request threw; when it returns, POST /runs and PATCH /runs/{id}
\* were issued and events.created = events.duplicates = 0.
C4_NoEventsNoBatch ==
    \A t \in Threads : (params[t].op = "recordRun" /\ params[t].events = <<>>) =>
        /\ ~HasRank(calls[t], 4)
        /\ (pc[t] = Idle /\ outcome[t].state = "threw") => Last(calls[t]).result = "thrown"
        /\ (pc[t] = Idle /\ outcome[t].state = "returned") =>
            /\ HasRank(Sent(t), 3) /\ HasRank(Sent(t), 5)
            /\ outcome[t].result.events_created = 0
            /\ outcome[t].result.events_duplicates = 0

C4_Witness ==
    /\ params[1].op = "recordRun" /\ params[1].events = <<>>
    /\ pc[1] = Idle /\ outcome[1].state = "returned"
    /\ Len(Sent(1)) >= 2

\* C6: when a ping() has returned or thrown, the base URL is the one the
\* client had when that call began.
C6_PingRestores ==
    \A t \in Threads : (params[t].op = "ping" /\ pc[t] = Idle) =>
        impl.base_url = params[t].base_url_before

\* A ping that threw on a client whose base URL the swap changes.
C6_Witness ==
    /\ params[1].op = "ping" /\ pc[1] = Idle
    /\ outcome[1].state = "threw"
    /\ Len(Sent(1)) = 1
    /\ Sent(1)[1].url # RequestUrl(impl.base_url, "/health")

\* A response with a status outside [200,300) has arrived on thread t.
FailureStatus(t) ==
    /\ resp[t].res = "CURLE_OK"
    /\ resp[t].http_code < 200 \/ resp[t].http_code >= 300

\* The body is one the build reads: JSON, and in the picojson build an object.
BodyRead(t) ==
    /\ resp[t].body.kind # "invalid"
    /\ variant = "picojson" => resp[t].body.kind = "obj"

TypeForStatus(code) ==
    IF code = 401 THEN "AuthenticationError"
    ELSE IF code = 404 THEN "NotFoundError"
    ELSE IF code = 429 THEN "RateLimitError"
    ELSE "DripError"

\* What C9 says of a failure status on thread t.
MappedByStatus(t) ==
    /\ ret[t].state = "thrown"
    /\ ret[t].error.type = TypeForStatus(resp[t].http_code)
    /\ ret[t].error.type = "DripError" =>
        /\ ret[t].error.status = resp[t].http_code
        /\ ret[t].error.code = json_string(resp[t].body, "code")

C10_Original ==
    \A t \in Threads : FailureStatus(t) =>
        /\ ret[t].state = "thrown"
        /\ ret[t].error.type = TypeForStatus(resp[t].http_code)

\* C10: a response outside [200,300) always throws and never returns; when
\* its body is not valid JSON the error is the base DripError carrying the
\* status and code PARSE_ERROR, whatever the status.
C10_ParseErrorBeforeStatus ==
    \A t \in Threads : FailureStatus(t) =>
        /\ ret[t].state = "thrown"
        /\ resp[t].body.kind = "invalid" =>
            /\ ret[t].error.type = "DripError"
            /\ ret[t].error.status = resp[t].http_code
            /\ ret[t].error.code = "PARSE_ERROR"

\* A 401 whose body is no JSON.
C10_Witness ==
    /\ FailureStatus(1)
    /\ resp[1].http_code = 401
    /\ resp[1].body.kind = "invalid"
    /\ ret[1].state = "thrown" /\ ret[1].error.code = "PARSE_ERROR"

\* The base URL the client was constructed with, trailing slashes stripped.
ConfiguredBaseUrl == Impl(config, env).base_url

\* C7 as the spec states it: whenever two ping() calls on one client have
\* both ended, the base URL is the one the client had before either began.
\* No other operation writes the base URL, so before the first pair of pings
\* that value is the constructed one.
C7_BothPingsRestore ==
    (\A t \in Threads : params[t].op = "ping" /\ pc[t] = Idle) =>
        impl.base_url = ConfiguredBaseUrl

\* C8 as the spec states it: every request an operation other than ping has
\* put on the wire went to the configured base URL followed by the path.
C8_RequestsUseConfiguredBase ==
    \A t \in Threads : params[t].op \notin {"none", "ping"} =>
        \A i \in 1..Len(calls[t]) :
            calls[t][i].issued =>
                calls[t][i].url = RequestUrl(ConfiguredBaseUrl, calls[t][i].path)

\* The batch request call t put on the wire, its events' idempotency keys by
\* index, and the run id it names.
BatchSent(t) == SelectSeq(Sent(t), LAMBDA c : Rank(c) = 4)[1]

KeysSent(t) ==
    LET ev == BatchSent(t).body.val["events"].val
    IN  [i \in 1..Len(ev) |-> ev[i].val["idempotencyKey"].val]

RunIdSent(t) == BatchSent(t).body.val["events"].val[1].val["runId"].val

\* Both the first attempt and its retry sent their batch.
BothBatchesSent ==
    /\ params[2] = params[1]
    /\ HasRank(Sent(1), 4)
    /\ HasRank(Sent(2), 4)

\* C5 as the spec states it: a recordRun and its retry with the same
\* parameters send the same idempotency key at each index of the batch.
C5_Original == BothBatchesSent => KeysSent(1) = KeysSent(2)

\* C5: a recordRun and its retry with the same parameters send the same
\* idempotency key at each index of the batch when external_run_id is given,
\* and when it is empty provided POST /runs answered both with the same run id.
C5_StableKeys ==
    (BothBatchesSent /\ (params[1].external_run_id # "" \/ RunIdSent(1) = RunIdSent(2)))
        => KeysSent(1) = KeysSent(2)

\* An external run id, and the server gave the two attempts different runs.
C5_Witness ==
    /\ BothBatchesSent
    /\ params[1].external_run_id # ""
    /\ RunIdSent(1) # RunIdSent(2)
    /\ Len(params[1].events) >= 2

\* C11: a response that arrived with a status other than 204 and a body that
\* is no JSON makes request() throw the base DripError carrying that status
\* and code PARSE_ERROR, for success and failure statuses alike; it never
\* returns.
C11_ParseFailureIsError ==
    \A t \in Threads :
        (resp[t].res = "CURLE_OK" /\ resp[t].http_code # 204 /\ resp[t].body.kind = "invalid") =>
            /\ ret[t].state = "thrown"
            /\ ret[t].error.type = "DripError"
            /\ ret[t].error.status = resp[t].http_code
            /\ ret[t].error.code = "PARSE_ERROR"

\* A 200 whose body is no JSON, on a POST.
C11_Witness ==
    /\ resp[1].res = "CURLE_OK" /\ resp[1].http_code = 200
    /\ resp[1].body.kind = "invalid"
    /\ Last(calls[1]).method = "POST"
    /\ ret[1].state = "thrown" /\ ret[1].error.status = 200

\* C12: a response with status 204 makes request() return the object
\* {success: true}, whatever the method and whatever the body holds (the
\* body is not parsed); it does not throw.
C12_NoContentIsSuccess ==
    \A t \in Threads :
        (resp[t].res = "CURLE_OK" /\ resp[t].http_code = 204) =>
            /\ Last(calls[t]).method \in {"GET", "POST", "PATCH"}
            /\ ret[t].state = "returned"
            /\ ret[t].data = JObj([k \in {"success"} |-> JBool(TRUE)])

\* A 204 with a body that is no JSON, on a PATCH.
C12_Witness ==
    /\ resp[1].res = "CURLE_OK" /\ resp[1].http_code = 204
    /\ resp[1].body.kind = "invalid"
    /\ Last(calls[1]).method = "PATCH"
    /\ ret[1].state = "returned"

\* C13: a transfer that timed out makes request() throw TimeoutError, and a
\* transfer that failed otherwise, or a handle that could not be made, makes
\* it throw NetworkError; TimeoutError is thrown for nothing but a timeout
\* and NetworkError for nothing but a transport failure that is no timeout.
C13_TimeoutDistinct ==
    \A t \in Threads : ret[t].state # "none" =>
        /\ resp[t].res = "CURLE_OPERATION_TIMEDOUT" <=>
               (ret[t].state = "thrown" /\ ret[t].error.type = "TimeoutError")
        /\ resp[t].res \notin {"CURLE_OK", "CURLE_OPERATION_TIMEDOUT"} <=>
               (ret[t].state = "thrown" /\ ret[t].error.type = "NetworkError")

\* A ping that timed out and threw TimeoutError to its caller.
C13_Witness ==
    /\ params[1].op = "ping" /\ pc[1] = Idle
    /\ resp[1].res = "CURLE_OPERATION_TIMEDOUT"
    /\ outcome[1].state = "threw" /\ outcome[1].error.type = "TimeoutError"

\* The constructor threw on thread t.
ConstructionFailed(t) ==
    params[t].op = "Client" /\ pc[t] = Idle /\ outcome[t].state = "threw"

\* An error raised from a response carries the status of that response.
ResponseErrorsCarryStatus ==
    \A t \in Threads :
        (ret[t].state = "thrown" /\ resp[t].res = "CURLE_OK") =>
            ret[t].error.status = resp[t].http_code

NoApiKey == config.api_key = "" /\ env.DRIP_API_KEY = ""

\* C15: when neither the Config nor DRIP_API_KEY gives a key, there is never
\* a client object, no request() call is ever made, and every attempt to
\* construct ends in a thrown base DripError with code NO_API_KEY.
C15_NoKeyNoClient ==
    NoApiKey =>
        /\ impl = NoClient
        /\ \A t \in Threads :
            /\ calls[t] = <<>>
            /\ inflight[t] = {}
            /\ params[t].op \in {"none", "Client"}
            /\ params[t].op = "Client" =>
                /\ outcome[t].state = "threw"
                /\ outcome[t].error.type = "DripError"
                /\ outcome[t].error.code = "NO_API_KEY"

\* The constructor has thrown for want of a key.
C15_Witness == NoApiKey /\ ConstructionFailed(1)

\* The key begins with the three characters of prefix.
StartsWith(key, prefix) == Len(key) >= 3 /\ SubSeq(key, 1, 3) = prefix

\* The key the constructor resolves: the Config's, or else DRIP_API_KEY.
ResolvedKey == IF config.api_key # "" THEN config.api_key ELSE env.DRIP_API_KEY

\* C16: once a constructor call has ended with a non-empty resolved key,
\* however short, there is a client, and as long as it lives its key_type is
\* KEY_SECRET exactly when the key starts with "sk_", KEY_PUBLIC exactly when
\* it starts with "pk_", and KEY_UNKNOWN otherwise.
C16_KeyType ==
    /\ (ResolvedKey # "" /\ params[1].op # "none") => impl # NoClient
    /\ impl # NoClient =>
        /\ impl.api_key = ResolvedKey
        /\ impl.key_type = "KEY_SECRET" <=> StartsWith(ResolvedKey, "sk_")
        /\ impl.key_type = "KEY_PUBLIC" <=> StartsWith(ResolvedKey, "pk_")
        /\ impl.key_type = "KEY_UNKNOWN" <=>
               ~(StartsWith(ResolvedKey, "sk_") \/ StartsWith(ResolvedKey, "pk_"))

\* A client made from the two-character key "sk", after a call on it ended.
C16_Witness ==
    /\ impl # NoClient
    /\ impl.api_key = "sk"
    /\ impl.key_type = "KEY_UNKNOWN"
    /\ params[1].op = "getCustomer" /\ pc[1] = Idle

\* The idempotencyKey member of a request body.
KeyInBody(c) == c.body.val["idempotencyKey"].val

\* What the key generator gives for the parameters of call t.
GeneratedKey(t) ==
    IF params[t].op = "trackUsage"
    THEN make_idempotency_key("track", params[t].customer_id, params[t].meter, params[t].quantity)
    ELSE make_idempotency_key("evt", params[t].run_id, params[t].event_type, params[t].quantity)

\* C17: every request trackUsage or emitEvent makes carries as idempotencyKey
\* the caller's idempotency_key, character for character, when that is not
\* empty, and the generator's key for the call's parameters when it is.
C17_ExplicitKeyWins ==
    \A t \in Threads : params[t].op \in {"trackUsage", "emitEvent"} =>
        \A i \in 1..Len(calls[t]) :
            KeyInBody(calls[t][i]) =
                IF params[t].idempotency_key # "" THEN params[t].idempotency_key
                ELSE GeneratedKey(t)

\* A trackUsage with an explicit key that went out and was answered.
C17_Witness ==
    /\ params[1].op = "trackUsage"
    /\ params[1].idempotency_key = "key1"
    /\ pc[1] = Idle /\ outcome[1].state = "returned"
    /\ Len(Sent(1)) = 1
    /\ KeyInBody(Sent(1)[1]) = "key1"
    /\ GeneratedKey(1) # "key1"

\* A response body without its isDuplicate member.
WithoutDuplicate(body) ==
    JObj([k \in DOMAIN body.val \ {"isDuplicate"} |-> body.val[k]])

\* trackUsage was called twice with the same explicit key, the first call's
\* request succeeded, and the server answered the second with 200 and
\* isDuplicate: true.
RepeatAnsweredDuplicate ==
    /\ params[1].op = "trackUsage"
    /\ params[2] = params[1]
    /\ params[1].idempotency_key # ""
    /\ Last(calls[1]).result = "returned"
    /\ pc[2] = Idle
    /\ resp[2].res = "CURLE_OK" /\ resp[2].http_code = 200
    /\ json_bool(resp[2].body, "isDuplicate", FALSE)

\* C18 as the spec states it: in that case the second call returns, and its
\* result tells the caller of the duplicate: it is not the result the same
\* answer without the flag would have given.
C18_RepeatReportedDuplicate ==
    RepeatAnsweredDuplicate =>
        /\ outcome[2].state = "returned"
        /\ outcome[2].result.success
        /\ outcome[2].result # TrackUsageResult(WithoutDuplicate(resp[2].body), params[2])

\* The members an event object must have for the event (or emitEvent
\* parameters) e: the three fixed ones and one per optional field that is set.
MembersFor(e) ==
    {"runId", "eventType", "idempotencyKey"}
    \cup (IF e.quantity # 0 THEN {"quantity"} ELSE {})
    \cup (IF e.cost_units # 0 THEN {"costUnits"} ELSE {})
    \cup (IF e.units # "" THEN {"units"} ELSE {})
    \cup (IF e.description # "" THEN {"description"} ELSE {})
    \cup (IF e.metadata # NoMetadata THEN {"metadata"} ELSE {})

\* C19: the body of every emitEvent request, and every event of every
\* recordRun batch, has runId, eventType and idempotencyKey, has quantity
\* exactly when the quantity is not zero, costUnits exactly when cost_units is
\* not zero, units and description exactly when their strings are not empty,
\* metadata exactly when the map is not empty, and no other member; the batch
\* has one event per event of the parameters, in order.
C19_OptionalFieldsWhenSet ==
    \A t \in Threads : \A i \in 1..Len(calls[t]) :
        LET c == calls[t][i]
        IN  /\ params[t].op = "emitEvent" =>
                /\ c.body.kind = "obj"
                /\ DOMAIN c.body.val = MembersFor(params[t])
            /\ (params[t].op = "recordRun" /\ Rank(c) = 4) =>
                LET ev == c.body.val["events"].val
                IN  /\ Len(ev) = Len(params[t].events)
                    /\ \A n \in 1..Len(ev) :
                          /\ ev[n].kind = "obj"
                          /\ DOMAIN ev[n].val = MembersFor(params[t].events[n])

\* A recordRun sent a batch of a full event and a bare one, the first with
\* all eight members and the second with the three fixed ones only.
C19_Witness ==
    /\ params[1].op = "recordRun"
    /\ params[1].events = <<EventFull, EventBare>>
    /\ HasRank(Sent(1), 4)
    /\ LET ev == BatchSent(1).body.val["events"].val
       IN  /\ Cardinality(DOMAIN ev[1].val) = 8
           /\ DOMAIN ev[2].val = {"runId", "eventType", "idempotencyKey"}

\* C20: parsing the printed form of each of the six run statuses gives the
\* status back, and parsing any string that is not, character for character,
\* one of PENDING, RUNNING, COMPLETED, FAILED, CANCELLED, TIMEOUT gives
\* RUN_PENDING.
C20_StatusRoundTrip ==
    \A t \in Threads :
        /\ (params[t].op = "run_status_round_trip" /\ outcome[t].state = "returned") =>
              outcome[t].result = params[t].status
        /\ (params[t].op = "run_status_from_string" /\ outcome[t].state = "returned"
              /\ params[t].s \notin {"PENDING", "RUNNING", "COMPLETED", "FAILED",
                                     "CANCELLED", "TIMEOUT"}) =>
              outcome[t].result = "RUN_PENDING"

\* A token followed by a space was parsed.
C20_Witness ==
    /\ params[1].op = "run_status_from_string"
    /\ params[1].s = "RUNNING "
    /\ outcome[1].state = "returned"
    /\ outcome[1].result = "RUN_PENDING"

\* What the JSON libraries print for the non-string values of the model.
SerializedAs(j) ==
    CASE j = JNum(5) -> "5"
      [] j = JNum(0) -> "0"
      [] j = JBool(TRUE) -> "true"
      [] j = JBool(FALSE) -> "false"
      [] j = JNull -> "null"
      [] j = JArr(<<>>) -> "[]"
      [] j = JArr(<<JNum(1), JStr("a")>>) -> "[1,\"a\"]"
      [] j = JObj([k \in {} |-> JNull]) -> "{}"
      [] j = JObj([k \in {"a"} |-> JNum(1)]) -> "{\"a\":1}"
      [] OTHER -> "{\"a\":true,\"n\":[null]}"

\* C21: decoding the encoding of a metadata map gives the map back, and
\* decoding a JSON object gives a map with the object's keys in which a string
\* member is its string and any other member is its JSON text.
C21_MetadataRoundTrip ==
    \A t \in Threads :
        /\ (params[t].op = "metadata_round_trip" /\ outcome[t].state = "returned") =>
              outcome[t].result = params[t].m
        /\ (params[t].op = "metadata_from_json" /\ outcome[t].state = "returned"
              /\ params[t].j.kind = "obj") =>
              LET o == params[t].j.val
                  m == outcome[t].result
              IN  /\ DOMAIN m = DOMAIN o
                  /\ \A k \in DOMAIN o :
                        m[k] = IF o[k].kind = "str" THEN o[k].val ELSE SerializedAs(o[k])

\* An object with a number and a nested object was decoded.
C21_Witness ==
    /\ params[1].op = "metadata_from_json"
    /\ params[1].j = JObj([k \in {"k", "n"} |->
                             IF k = "k" THEN JNum(5) ELSE JObj([a \in {"a"} |-> JNum(1)])])
    /\ outcome[1].state = "returned"
    /\ outcome[1].result["k"] = "5"
    /\ outcome[1].result["n"] = "{\"a\":1}"

\* The scalar members of a default-constructed struct are all zero, false and
\* RUN_PENDING.
ZeroInitialized(type, x) ==
    CASE type = "TrackUsageParams" -> x.quantity = 0
      [] type = "PingResult" -> ~x.ok /\ x.latency_ms = 0 /\ x.timestamp = 0
      [] type = "TrackUsageResult" -> ~x.success /\ x.quantity = 0 /\ ~x.is_internal
      [] type = "CustomerResult" -> ~x.is_internal
      [] type = "ListCustomersResult" -> x.total = 0
      [] type = "RunResult" -> x.status = "RUN_PENDING"
      [] type = "EndRunResult" -> x.duration_ms = 0 /\ x.event_count = 0
      [] type = "EventResult" -> x.quantity = 0 /\ x.cost_units = 0 /\ ~x.is_duplicate
      [] type = "RecordRunResult" ->
            x.run.duration_ms = 0 /\ x.events.created = 0 /\ x.events.duplicates = 0
      [] OTHER -> TRUE

\* C22 as the spec and the tests state it: every default-constructed
\* TrackUsageParams, PingResult, TrackUsageResult, CustomerResult,
\* ListCustomersResult, RunResult, EndRunResult, EventResult and
\* RecordRunResult has its numeric fields 0, its boolean fields false and
\* RunResult.status RUN_PENDING.
C22_StructsZeroInitialized ==
    \A t \in Threads :
        (params[t].op = "default_construct" /\ params[t].type \in PlainStructs
            /\ outcome[t].state = "returned") =>
            ZeroInitialized(params[t].type, outcome[t].result)

\* The named member of a body when it is a non-empty string, "" otherwise.
NonEmptyString(body, key) ==
    IF body.kind = "obj" /\ key \in DOMAIN body.val /\ body.val[key].kind = "str"
    THEN body.val[key].val ELSE ""

\* What C23 says of the message of the error raised for the response of
\* thread t.
MessageFromBody(t) ==
    /\ ret[t].state = "thrown"
    /\ NonEmptyString(resp[t].body, "message") # "" =>
            ret[t].error.message = NonEmptyString(resp[t].body, "message")
    /\ (NonEmptyString(resp[t].body, "message") = ""
            /\ NonEmptyString(resp[t].body, "error") # "") =>
            ret[t].error.message = NonEmptyString(resp[t].body, "error")
    /\ (NonEmptyString(resp[t].body, "message") = ""
            /\ NonEmptyString(resp[t].body, "error") = "") =>
            ret[t].error.message =
                CASE resp[t].http_code = 401 -> "Request failed with status 401"
                  [] resp[t].http_code = 404 -> "Request failed with status 404"
                  [] resp[t].http_code = 429 -> "Request failed with status 429"
                  [] resp[t].http_code = 500 -> "Request failed with status 500"

\* C23 as the spec states it: every response outside [200,300) raises an
\* error whose message is the body's message, else its error, else the
\* generated text.
C23_Original ==
    \A t \in Threads : FailureStatus(t) => MessageFromBody(t)

\* C23: when the body of a response outside [200,300) was read (it is JSON,
\* and in the picojson build an object), the error's message is the body's
\* message member when that is a non-empty string, otherwise its error member
\* when that is a non-empty string, otherwise "Request failed with status <N>";
\* when the body was not read, the message is that of the parse failure.
C23_MessageWhenBodyRead ==
    \A t \in Threads : FailureStatus(t) =>
        /\ BodyRead(t) => MessageFromBody(t)
        /\ ~BodyRead(t) =>
            /\ ret[t].state = "thrown"
            /\ ret[t].error.message \in {"Failed to parse API response",
                                         "API response is not a JSON object"}

\* A 500 whose message is empty and whose error is not.
C23_Witness ==
    /\ FailureStatus(1) /\ BodyRead(1)
    /\ resp[1].http_code = 500
    /\ resp[1].body = Obj2("message", JStr(""), "error", JStr("bad"))
    /\ ret[1].state = "thrown"
    /\ ret[1].error.message = "bad"

\* C24: a recordRun whose workflow string starts with "wf_" makes no request
\* to /workflows, GET or POST, and every POST /runs it makes carries that
\* string, unchanged, as workflowId.
C24_PrefixedIdSkipsResolution ==
    \A t \in Threads :
        (params[t].op = "recordRun" /\ Substr(params[t].workflow, 0, 3) = "wf_") =>
            \A i \in 1..Len(calls[t]) :
                /\ calls[t][i].path # "/workflows"
                /\ Rank(calls[t][i]) \notin {1, 2}
                /\ Rank(calls[t][i]) = 3 => WorkflowIdSent(calls[t][i]) = params[t].workflow

\* A recordRun for wf_abc ran to its end: POST /runs went first and named
\* wf_abc.
C24_Witness ==
    /\ params[1].op = "recordRun"
    /\ params[1].workflow = "wf_abc"
    /\ pc[1] = Idle /\ outcome[1].state = "returned"
    /\ Rank(Sent(1)[1]) = 3
    /\ WorkflowIdSent(Sent(1)[1]) = "wf_abc"

\* The workflows a listing answer holds: the members of its data array.
Listed(data) ==
    IF data.kind = "obj" /\ "data" \in DOMAIN data.val /\ data.val["data"].kind = "arr"
    THEN data.val["data"].val ELSE <<>>

\* Entry w is a workflow whose slug or id is the string s.
SlugOrIdIs(w, s) ==
    /\ w.kind = "obj"
    /\ \/ "slug" \in DOMAIN w.val /\ w.val["slug"] = JStr(s)
       \/ "id" \in DOMAIN w.val /\ w.val["id"] = JStr(s)

\* The display names of the workflow strings of ResolveInputs.
ExpectedName(s) ==
    CASE s = "my-run" -> "My Run"
      [] s = "my_long-run" -> "My Long Run"
      [] s = "a--b" -> "A  B"
      [] s = "x" -> "X"
      [] s = "Train 2" -> "Train 2"
      [] s = "wf" -> "Wf"
      [] s = "wfx_1" -> "Wfx 1"

\* C25: when recordRun goes on after a listing that succeeded, for a workflow
\* string without the wf_ prefix: if an entry's slug or id is the string, the
\* next request is POST /runs with the id of the first such entry, and
\* otherwise it is POST /workflows with the string as slug, the display name
\* as name and productSurface CUSTOM; when it goes on after a creation that
\* succeeded, the next request is POST /runs with the id of the created
\* workflow.  POST /workflows is made at most once and never after a match.
C25_MatchOrCreate ==
    [][\A t \in Threads :
        (params[t].op = "recordRun" /\ pc[t].phase = "ret" /\ pc'[t] # pc[t]
            /\ ret[t].state = "returned") =>
          LET arr == Listed(ret[t].data)
              s == params[t].workflow
              rq == local'[t].req
          IN  /\ pc[t].site = "rr_list" =>
                    IF \E i \in 1..Len(arr) : SlugOrIdIs(arr[i], s)
                    THEN \E i \in 1..Len(arr) :
                            /\ SlugOrIdIs(arr[i], s)
                            /\ \A j \in 1..(i - 1) : ~SlugOrIdIs(arr[j], s)
                            /\ rq.method = "POST" /\ rq.path = "/runs"
                            /\ WorkflowIdSent(rq) = json_string(arr[i], "id")
                            /\ ~HasRank(calls'[t], 2)
                    ELSE /\ rq = Req("POST", "/workflows",
                                     Obj3("name", JStr(ExpectedName(s)), "slug", JStr(s),
                                          "productSurface", JStr("CUSTOM")))
                         /\ ~HasRank(calls[t], 2)
              /\ pc[t].site = "rr_create" =>
                    /\ rq.method = "POST" /\ rq.path = "/runs"
                    /\ WorkflowIdSent(rq) = json_string(ret[t].data, "id")
                    /\ Len(SelectSeq(calls[t], LAMBDA c : Rank(c) = 2)) = 1
    ]_vars

\* Of two listed workflows with slug my-run the first, wf_2, was used, and no
\* workflow was created.
C25_Witness ==
    /\ params[1].op = "recordRun"
    /\ params[1].workflow = "my-run"
    /\ Len(Sent(1)) >= 2
    /\ Rank(Sent(1)[1]) = 1 /\ Sent(1)[1].result = "returned"
    /\ Rank(Sent(1)[2]) = 3
    /\ WorkflowIdSent(Sent(1)[2]) = "wf_2"

\* The build that is not the one running.
OtherVariant == IF variant = "nlohmann" THEN "picojson" ELSE "nlohmann"

\* C26 as the spec states it: the two builds are behaviourally identical, so
\* what request() made of a response in the build that is running (a result,
\* or an error of some kind, status and code) is what the other build makes
\* of the same response.
C26_VariantsAgree ==
    \A t \in Threads : resp[t] # NoResponse =>
        LET other == RequestOutcome(OtherVariant, resp[t])
        IN  /\ ret[t].state = other.state
            /\ ret[t].data = other.data
            /\ ret[t].error.type = other.error.type
            /\ ret[t].error.status = other.error.status
            /\ ret[t].error.code = other.error.code

\* C27 as the spec states it: when an operation has returned or thrown, no
\* curl handle or header list of a request it made is still held.
C27_HandlesReleased ==
    \A t \in Threads : pc[t] = Idle => inflight[t] = {}

\* C28 as the spec states it: the API key, the timeout and the key type are
\* those the client was constructed with, and the base URL differs from the
\* constructed one only while some ping() call is running.
C28_ConfigReadOnly ==
    /\ impl.api_key = Impl(config, env).api_key
    /\ impl.timeout_ms = Impl(config, env).timeout_ms
    /\ impl.key_type = Impl(config, env).key_type
    /\ impl.base_url # ConfiguredBaseUrl =>
          \E t \in Threads : params[t].op = "ping" /\ pc[t] # Idle

\* The three fields the generated key of call t is made of.
KeyFields(t) ==
    IF params[t].op = "trackUsage"
    THEN <<params[t].customer_id, params[t].meter, params[t].quantity>>
    ELSE <<params[t].run_id, params[t].event_type, params[t].quantity>>

\* Both calls are of one operation, gave no explicit key, and sent a request.
BothSentGenerated ==
    /\ params[1].op \in {"trackUsage", "emitEvent"}
    /\ params[2].op = params[1].op
    /\ \A t \in Threads : params[t].idempotency_key = "" /\ Len(Sent(t)) = 1

\* C29: two trackUsage calls without an explicit key that agree in
\* customer_id, meter and quantity, and two emitEvent calls that agree in
\* run_id, event_type and quantity, send the same idempotencyKey, whatever
\* became of the first call, whatever the client's base URL, and whatever
\* their units, description, cost_units and metadata.
C29_KeyOfThreeFields ==
    (BothSentGenerated /\ KeyFields(1) = KeyFields(2)) =>
        KeyInBody(Sent(1)[1]) = KeyInBody(Sent(2)[1])

\* Two trackUsage calls that differ in units, description and metadata only,
\* the first of which failed, sent one key.
C29_Witness ==
    /\ BothSentGenerated
    /\ params[1].op = "trackUsage"
    /\ KeyFields(1) = KeyFields(2)
    /\ params[1].units # params[2].units
    /\ params[1].metadata # params[2].metadata
    /\ Sent(1)[1].result = "thrown"
    /\ Sent(2)[1].result = "returned"
    /\ KeyInBody(Sent(1)[1]) = KeyInBody(Sent(2)[1])

\* C30 as the spec states it: every POST /runs of a recordRun whose workflow
\* string is not empty carries a workflowId that is not empty.
C30_WorkflowIdNotEmpty ==
    \A t \in Threads : (params[t].op = "recordRun" /\ params[t].workflow # "") =>
        \A i \in 1..Len(calls[t]) :
            Rank(calls[t][i]) = 3 => WorkflowIdSent(calls[t][i]) # ""

====
